---- MODULE Spec2Model ----
(***************************************************************************)
(* SlackClaw: command intake and task lifecycle core.                      *)
(*                                                                         *)
(* One orchestrator process (app.run) with its in-memory TaskQueue, the    *)
(* durable StateStore (tasks, execution_locks, task_approvals,             *)
(* processed_messages), the worker pool of _drain_queue, and crash and     *)
(* restart of the orchestrator.                                            *)
(***************************************************************************)
EXTENDS Integers, Sequences, FiniteSets, TLC

\* ------------------------------------------------------------------ bounds
\* Number of distinct command-channel messages Slack ever delivers.
MaxTasks == 2
\* Number of times the orchestrator process is started (first start included).
MaxStarts == 2
\* Saturation value of the history counters.
CountCap == 2

Tasks == 1..MaxTasks

Inc(n) == IF n < CountCap THEN n + 1 ELSE n

\* ------------------------------------------------------------ models.py
PENDING == "pending"
WAITING_APPROVAL == "waiting_approval"
RUNNING == "running"
SUCCEEDED == "succeeded"
FAILED == "failed"
CANCELED == "canceled"
ABORTED_ON_RESTART == "aborted_on_restart"

TaskStatus ==
  {PENDING, WAITING_APPROVAL, RUNNING, SUCCEEDED, FAILED, CANCELED, ABORTED_ON_RESTART}

TERMINAL_TASK_STATUSES == {SUCCEEDED, FAILED, CANCELED, ABORTED_ON_RESTART}

APPROVAL_PENDING == "pending"
APPROVED == "approved"
REJECTED == "rejected"

ApprovalStatus == {APPROVAL_PENDING, APPROVED, REJECTED}

\* ------------------------------------------------------------ config.py
\* The configurations load_config can return, restricted to the fields the
\* orchestrator branches on.  worker_processes = 1 means inline execution.
Configs ==
  { c \in [approval_mode : {"none", "reaction"},
           listener_mode : {"poll", "socket"},
           worker_processes : {1, 2}] :
      c.approval_mode = "reaction" => c.listener_mode = "socket" }

APPROVE_REACTION == "white_check_mark"
REJECT_REACTION == "x"

\* DEFAULT_SHELL_ALLOWLIST, restricted to the names the modelled commands use.
SHELL_ALLOWLIST == {"echo", "ls", "cd", "git"}

\* -------------------------------------------------- Slack side (inputs)
\* The messages of the command channel.  Message number t has ts = t; its
\* text is given in parsed form: whether the trigger prefix is present, the
\* command prefix ("sh" for sh:..., "" for a bare command), and for a shell
\* command its segments (split on && || ; |), each a sequence of tokens.
\*   1: "!do sh:rm -rf /"            (with one image file attached)
\*   2: "!do ship"
\*   3: "!do sh:cd /repo && ls"
\*   0: "hello"                       (no trigger)
MessageShape(t) == t % 4

MessageOf(t) ==
  [ ts |-> t,
    thread_ts |-> t,
    user |-> "U1",
    subtype |-> "",
    triggered |-> MessageShape(t) # 0,
    prefix |-> IF MessageShape(t) \in {1, 3} THEN "sh" ELSE "",
    segments |-> CASE MessageShape(t) = 1 -> << <<"rm", "-rf", "/">> >>
                   [] MessageShape(t) = 3 -> << <<"cd", "/repo">>, <<"ls">> >>
                   [] OTHER -> << <<"ship">> >>,
    lock_key |-> IF MessageShape(t) = 3 THEN "path:/repo" ELSE "global",
    files |-> IF MessageShape(t) = 1 THEN 1 ELSE 0 ]

\* ts of the plan message Slack creates for the task of message t.
PlanTs(t) == MaxTasks + t

AllTs == 1..(2 * MaxTasks)

Users == {"U2", "U3"}

ReactionNames == {"white_check_mark", ":white_check_mark:", "x", "eyes"}

SlackReactions == [message_ts : AllTs, reaction : ReactionNames, user : Users]

\* str.strip().strip(":") on the reaction names above.
StripColons(name) ==
  IF name = ":white_check_mark:" THEN "white_check_mark" ELSE name

\* ----------------------------------------------------------- decider.py
\* task_id is sha256(channel:ts:text)[:16]; distinct messages give distinct
\* ids, so the id of the task of message t is written t.
build_task_id(message) == message.ts

decide_message(message) ==
  IF message.subtype # "" \/ ~message.triggered
    THEN [should_run |-> FALSE, task_id |-> build_task_id(message)]
    ELSE [should_run |-> TRUE, task_id |-> build_task_id(message)]

\* The task of a message that triggers, as app.py handles it: app.py reads
\* task.thread_ts and task.image_paths (lines 196, 201, 258), which the
\* TaskSpec of models.py does not declare (see task_spec); they are carried
\* here as app.py expects them.
TaskOf(message) ==
  [ task_id |-> build_task_id(message),
    message_ts |-> message.ts,
    thread_ts |-> message.thread_ts,
    prefix |-> message.prefix,
    segments |-> message.segments,
    lock_key |-> message.lock_key,
    image_paths |-> 0 ]

\* --------------------------------------------------------------- app.py
SHELL_WRAPPER_CMDS == {"sudo", "command", "time", "nohup"}

\* _SHELL_ASSIGNMENT_RE on the tokens used here.
IsShellAssignment(token) == token \in {"FOO=1"}

\* Path(cmd).name.lower() on the tokens used here.
PathNameLower(token) == IF token = "/bin/RM" THEN "rm" ELSE token

RECURSIVE SkipAssignments(_, _)
SkipAssignments(parts, index) ==
  IF index <= Len(parts) /\ IsShellAssignment(parts[index])
    THEN SkipAssignments(parts, index + 1)
    ELSE index

\* Mutation: a wrapper is taken for the command name.
SegmentCommandName_keeps_wrapper(parts) ==
  LET i == SkipAssignments(parts, 1) IN
  IF i > Len(parts) THEN <<>> ELSE <<PathNameLower(parts[i])>>

\* The effective command name of one segment, as a sequence of 0 or 1 names.
SegmentCommandName(parts) ==
  LET i == SkipAssignments(parts, 1) IN
  IF i > Len(parts) THEN <<>>
  ELSE IF parts[i] \in SHELL_WRAPPER_CMDS /\ i + 1 <= Len(parts)
    THEN LET j == SkipAssignments(parts, i + 1) IN
         IF j > Len(parts) THEN <<>> ELSE <<PathNameLower(parts[j])>>
    ELSE <<PathNameLower(parts[i])>>

RECURSIVE extract_shell_command_names(_)
extract_shell_command_names(segments) ==
  IF segments = <<>> THEN <<>>
  ELSE SegmentCommandName(Head(segments)) \o extract_shell_command_names(Tail(segments))

SeqRange(s) == { s[i] : i \in 1..Len(s) }

RECURSIVE DisallowedFrom(_, _, _)
DisallowedFrom(names, allow, seen) ==
  IF names = <<>> THEN <<>>
  ELSE IF Head(names) \in allow \/ Head(names) \in seen
    THEN DisallowedFrom(Tail(names), allow, seen)
    ELSE <<Head(names)>> \o DisallowedFrom(Tail(names), allow, seen \cup {Head(names)})

\* Mutation: every command name passes the allowlist.
disallowed_shell_commands_none(segments, allowlist) == <<>>

disallowed_shell_commands(segments, allowlist) ==
  DisallowedFrom(extract_shell_command_names(segments), allowlist, {})

task_payload(task) ==
  [ message_ts |-> task.message_ts,
    thread_ts |-> task.thread_ts,
    prefix |-> task.prefix,
    segments |-> task.segments,
    lock_key |-> task.lock_key,
    image_paths |-> task.image_paths ]

task_from_payload(task_id, payload) ==
  [ task_id |-> task_id,
    message_ts |-> payload.message_ts,
    thread_ts |-> IF payload.thread_ts # 0 THEN payload.thread_ts ELSE payload.message_ts,
    prefix |-> payload.prefix,
    segments |-> payload.segments,
    lock_key |-> payload.lock_key,
    image_paths |-> payload.image_paths ]

\* -------------------------------------------------------- state_store.py
\* processed_messages: a set of message ts (one command channel).
\* Mutation: INSERT OR REPLACE instead of INSERT OR IGNORE, so that the
\* row count is 1 on every call.
mark_message_processed_replace(processed, message_ts) ==
  [ ok |-> TRUE,
    processed |-> processed \cup {message_ts} ]

mark_message_processed(processed, message_ts) ==
  [ ok |-> message_ts \notin processed,
    processed |-> processed \cup {message_ts} ]

\* tasks: a function task_id -> [status, payload] on the ids that have a row.
task_exists(tk, task_id) == task_id \in DOMAIN tk

upsert_task(tk, task_id, status, payload) ==
  [ id \in (DOMAIN tk) \cup {task_id} |->
      IF id = task_id THEN [status |-> status, payload |-> payload] ELSE tk[id] ]

update_task_status(tk, task_id, status) ==
  [ id \in DOMAIN tk |->
      IF id = task_id THEN [tk[id] EXCEPT !.status = status] ELSE tk[id] ]

\* Mutation: UPDATE ... WHERE task_id = ? without AND status = ?.
transition_task_status_unconditional(tk, task_id, from_status, to_status) ==
  [ ok |-> task_id \in DOMAIN tk,
    tasks |-> update_task_status(tk, task_id, to_status) ]

transition_task_status(tk, task_id, from_status, to_status) ==
  LET hit == task_id \in DOMAIN tk /\ tk[task_id].status = from_status IN
  [ ok |-> hit,
    tasks |-> IF hit THEN update_task_status(tk, task_id, to_status) ELSE tk ]

\* Mutation: the sweep without WHERE status = 'running'.
mark_running_tasks_aborted_all(tk) ==
  [ count |-> Cardinality(DOMAIN tk),
    tasks |-> [ id \in DOMAIN tk |-> [tk[id] EXCEPT !.status = ABORTED_ON_RESTART] ] ]

\* Mutation: the sweep returning the size of the table instead of the
\* number of rows the UPDATE changed.
mark_running_tasks_aborted_total_count(tk) ==
  [ count |-> Cardinality(DOMAIN tk),
    tasks |-> [ id \in DOMAIN tk |->
                  IF tk[id].status = RUNNING
                    THEN [tk[id] EXCEPT !.status = ABORTED_ON_RESTART]
                    ELSE tk[id] ] ]

mark_running_tasks_aborted(tk) ==
  [ count |-> Cardinality({ id \in DOMAIN tk : tk[id].status = RUNNING }),
    tasks |-> [ id \in DOMAIN tk |->
                  IF tk[id].status = RUNNING
                    THEN [tk[id] EXCEPT !.status = ABORTED_ON_RESTART]
                    ELSE tk[id] ] ]

\* execution_locks: a set of rows [lock_key, task_id]; lock_key is the
\* primary key and INSERT OR IGNORE skips the insert when the key has a row.
acquire_execution_lock(lk, lock_key, task_id) ==
  LET free == \A row \in lk : row.lock_key # lock_key IN
  [ ok |-> free,
    locks |-> IF free THEN lk \cup {[lock_key |-> lock_key, task_id |-> task_id]} ELSE lk ]

\* Mutation: the owner test of the DELETE inverted.
release_execution_lock_not_owner(lk, lock_key, task_id) ==
  { row \in lk : ~(row.lock_key = lock_key /\ row.task_id # task_id) }

release_execution_lock(lk, lock_key, task_id) ==
  { row \in lk : ~(row.lock_key = lock_key /\ row.task_id = task_id) }

\* task_approvals: a function task_id -> record on the ids that have a row.
upsert_task_approval(ap, task_id, source_message_ts, approval_message_ts, approve_reaction, reject_reaction) ==
  [ id \in (DOMAIN ap) \cup {task_id} |->
      IF id = task_id
        THEN [ source_message_ts |-> source_message_ts,
               approval_message_ts |-> approval_message_ts,
               approve_reaction |-> approve_reaction,
               reject_reaction |-> reject_reaction,
               status |-> APPROVAL_PENDING,
               decided_by |-> "",
               decision_reaction |-> "" ]
        ELSE ap[id] ]

\* Mutation: the lookup matches the source message ts only.
PendingApprovalsFor_source_only(ap, message_ts) ==
  { id \in DOMAIN ap :
      ap[id].status = APPROVAL_PENDING /\ ap[id].source_message_ts = message_ts }

\* The ids of the pending rows that match the ts; the query returns the one
\* created first (ORDER BY created_at ASC LIMIT 1).
PendingApprovalsFor(ap, message_ts) ==
  { id \in DOMAIN ap :
      /\ ap[id].status = APPROVAL_PENDING
      /\ (ap[id].source_message_ts = message_ts \/ ap[id].approval_message_ts = message_ts) }

\* Mutation: UPDATE ... WHERE task_id = ? without AND status = 'pending'.
resolve_task_approval_no_check(ap, task_id, status, decided_by, decision_reaction) ==
  LET hit == task_id \in DOMAIN ap IN
  [ ok |-> hit,
    approvals |-> IF hit
                    THEN [ap EXCEPT ![task_id].status = status,
                                    ![task_id].decided_by = decided_by,
                                    ![task_id].decision_reaction = decision_reaction]
                    ELSE ap ]

resolve_task_approval(ap, task_id, status, decided_by, decision_reaction) ==
  LET hit == task_id \in DOMAIN ap /\ ap[task_id].status = APPROVAL_PENDING IN
  [ ok |-> hit,
    approvals |-> IF hit
                    THEN [ap EXCEPT ![task_id].status = status,
                                    ![task_id].decided_by = decided_by,
                                    ![task_id].decision_reaction = decision_reaction]
                    ELSE ap ]

\* -------------------------------------------------------------- queue.py
\* TaskQueue: _items (a sequence of TaskSpec) and _task_ids (a set).
EmptyQueue == [items |-> <<>>, task_ids |-> {}]

\* Mutation: no check of the id set.
enqueue_no_dedupe(q, task) ==
  [ok |-> TRUE,
   queue |-> [items |-> Append(q.items, task),
              task_ids |-> q.task_ids \cup {task.task_id}]]

enqueue(q, task) ==
  IF task.task_id \in q.task_ids
    THEN [ok |-> FALSE, queue |-> q]
    ELSE [ok |-> TRUE,
          queue |-> [items |-> Append(q.items, task),
                     task_ids |-> q.task_ids \cup {task.task_id}]]

\* Mutation: pop() in place of popleft().
dequeue_lifo(q) ==
  IF q.items = <<>>
    THEN [some |-> FALSE, queue |-> q]
    ELSE [some |-> TRUE,
          task |-> q.items[Len(q.items)],
          queue |-> [items |-> SubSeq(q.items, 1, Len(q.items) - 1),
                     task_ids |-> q.task_ids \ {q.items[Len(q.items)].task_id}]]

dequeue(q) ==
  IF q.items = <<>>
    THEN [some |-> FALSE, queue |-> q]
    ELSE [some |-> TRUE,
          task |-> Head(q.items),
          queue |-> [items |-> Tail(q.items),
                     task_ids |-> q.task_ids \ {Head(q.items).task_id}]]

\* ------------------------------------------- listener.py (socket mode)
COMMAND_CHANNEL == "C111"

\* SlackSocketModeListener: socket is the connection held (0: None);
\* opens counts the apps.connections.open calls, made the connections the
\* socket factory returned, closed holds the connections close() was called on.
NewSocketListener == [socket |-> 0, opens |-> 0, made |-> 0, closed |-> {}]

NoFrame == [kind |-> "none", envelope_id |-> <<>>, type |-> "", payload |-> "",
            event |-> "", channel |-> "", well_formed |-> FALSE]

EmptyBatch == [raised |-> FALSE, messages |-> <<>>, reactions |-> <<>>]

Raised == [raised |-> TRUE, messages |-> <<>>, reactions |-> <<>>]

Call(e, id) == [e |-> e, id |-> id]

\* str(envelope.get("envelope_id") or ""): <<>> is an absent or null id.
envelope_id_of(frame) ==
  IF frame.envelope_id = <<>> THEN "" ELSE frame.envelope_id[1]

\* The frame decodes to a JSON object.
IsEnvelope(frame) == frame.kind = "envelope"

\* Mutation: close() leaves _socket as it is.
close_keeps_socket(l) == l

close(l) ==
  IF l.socket = 0 THEN l
  ELSE [l EXCEPT !.socket = 0, !.closed = @ \cup {l.socket}]

\* open: "ok", "open_raises" (apps.connections.open raises), "no_url" or
\* "factory_raises".
ensure_socket(l, open) ==
  IF l.socket # 0 THEN [listener |-> l, ok |-> TRUE, trace |-> <<>>]
  ELSE IF open = "ok"
    THEN [listener |-> [l EXCEPT !.socket = l.made + 1, !.made = l.made + 1,
                                 !.opens = l.opens + 1],
          ok |-> TRUE, trace |-> <<Call("open", ""), Call("connect", "")>>]
  ELSE IF open = "factory_raises"
    THEN [listener |-> [l EXCEPT !.opens = l.opens + 1],
          ok |-> FALSE, trace |-> <<Call("open", ""), Call("connect", "")>>]
    ELSE [listener |-> [l EXCEPT !.opens = l.opens + 1],
          ok |-> FALSE, trace |-> <<Call("open", "")>>]

parse_message_event(frame) ==
  IF frame.channel # COMMAND_CHANNEL \/ ~frame.well_formed THEN <<>>
  ELSE << [channel_id |-> frame.channel] >>

parse_reaction_event(frame) ==
  IF ~frame.well_formed \/ frame.channel # COMMAND_CHANNEL THEN <<>>
  ELSE << [channel_id |-> frame.channel] >>

\* The part of receive after the ack.
batch_of(frame) ==
  IF frame.payload # "event" THEN EmptyBatch
  ELSE IF frame.event = "message"
    THEN [raised |-> FALSE, messages |-> parse_message_event(frame), reactions |-> <<>>]
  ELSE IF frame.event = "reaction_added"
    THEN [raised |-> FALSE, messages |-> <<>>, reactions |-> parse_reaction_event(frame)]
  ELSE EmptyBatch

\* Mutation: the ack is sent only for the frames that carry an event.
receive_acks_events_only(l, open, rx, send_ok) ==
  LET ensured == ensure_socket(l, open)
      l1 == ensured.listener
      id == envelope_id_of(rx)
      acked == id # "" /\ rx.payload = "event"
      t1 == ensured.trace \o <<Call("recv", "")>>
      t2 == IF acked THEN t1 \o <<Call("send", id)>> ELSE t1
  IN
  IF ~ensured.ok THEN [listener |-> l1, trace |-> ensured.trace \o <<Call("raise", "")>>,
                       frame |-> NoFrame, ret |-> Raised]
  ELSE IF rx.kind = "timeout"
    THEN [listener |-> l1, trace |-> t1 \o <<Call("return", "")>>, frame |-> rx, ret |-> EmptyBatch]
  ELSE IF rx.kind = "error"
    THEN [listener |-> close(l1), trace |-> t1 \o <<Call("close", ""), Call("raise", "")>>,
          frame |-> rx, ret |-> Raised]
  ELSE IF ~IsEnvelope(rx)
    THEN [listener |-> l1, trace |-> t1 \o <<Call("return", "")>>, frame |-> rx, ret |-> EmptyBatch]
  ELSE IF acked /\ ~send_ok
    THEN [listener |-> close(l1), trace |-> t2 \o <<Call("close", ""), Call("raise", "")>>,
          frame |-> rx, ret |-> Raised]
  ELSE IF rx.type = "disconnect"
    THEN [listener |-> close(l1), trace |-> t2 \o <<Call("close", ""), Call("return", "")>>,
          frame |-> rx, ret |-> EmptyBatch]
  ELSE [listener |-> l1, trace |-> t2 \o <<Call("return", "")>>, frame |-> rx,
        ret |-> batch_of(rx)]

\* SlackSocketModeListener.receive.  rx is what sock.recv() does: it raises
\* a timeout ("timeout") or another error ("error"), or returns a frame
\* that is blank, is not JSON, is JSON but no object, or is an envelope.
receive(l, open, rx, send_ok) ==
  LET ensured == ensure_socket(l, open)
      l1 == ensured.listener
      id == envelope_id_of(rx)
      t1 == ensured.trace \o <<Call("recv", "")>>
      t2 == IF id # "" THEN t1 \o <<Call("send", id)>> ELSE t1
  IN
  IF ~ensured.ok THEN [listener |-> l1, trace |-> ensured.trace \o <<Call("raise", "")>>,
                       frame |-> NoFrame, ret |-> Raised]
  ELSE IF rx.kind = "timeout"
    THEN [listener |-> l1, trace |-> t1 \o <<Call("return", "")>>, frame |-> rx, ret |-> EmptyBatch]
  ELSE IF rx.kind = "error"
    THEN [listener |-> close(l1), trace |-> t1 \o <<Call("close", ""), Call("raise", "")>>,
          frame |-> rx, ret |-> Raised]
  ELSE IF ~IsEnvelope(rx)
    THEN [listener |-> l1, trace |-> t1 \o <<Call("return", "")>>, frame |-> rx, ret |-> EmptyBatch]
  ELSE IF id # "" /\ ~send_ok
    THEN [listener |-> close(l1), trace |-> t2 \o <<Call("close", ""), Call("raise", "")>>,
          frame |-> rx, ret |-> Raised]
  ELSE IF rx.type = "disconnect"
    THEN [listener |-> close(l1), trace |-> t2 \o <<Call("close", ""), Call("return", "")>>,
          frame |-> rx, ret |-> EmptyBatch]
  ELSE [listener |-> l1, trace |-> t2 \o <<Call("return", "")>>, frame |-> rx,
        ret |-> batch_of(rx)]

\* --------------------------------------------- listener.py (poll mode)
\* _ts_as_float on the ts strings of the model, in tenths: float(ts), and
\* 0.0 when ts is no number.
ts_as_float(ts) ==
  CASE ts = "9.5" -> 95
    [] ts = "10.5" -> 105
    [] OTHER -> 0

\* list.sort(key=...): a stable sort, here by insertion.
RECURSIVE InsertByTs(_, _)
InsertByTs(sorted, m) ==
  IF sorted = <<>> THEN <<m>>
  ELSE IF ts_as_float(sorted[Len(sorted)].ts) <= ts_as_float(m.ts) THEN Append(sorted, m)
  ELSE Append(InsertByTs(SubSeq(sorted, 1, Len(sorted) - 1), m), sorted[Len(sorted)])

\* Mutation: the messages are returned in the order they were fetched.
RECURSIVE sort_by_ts_unsorted(_)
sort_by_ts_unsorted(ms) ==
  IF ms = <<>> THEN <<>> ELSE <<Head(ms)>> \o sort_by_ts_unsorted(Tail(ms))

RECURSIVE sort_by_ts(_)
sort_by_ts(ms) ==
  IF ms = <<>> THEN <<>>
  ELSE InsertByTs(sort_by_ts(SubSeq(ms, 1, Len(ms) - 1)), ms[Len(ms)])

\* The raw entries with a non-empty ts, as SlackMessages, in fetch order.
RECURSIVE normalize(_)
normalize(fetched) ==
  IF fetched = <<>> THEN <<>>
  ELSE IF Head(fetched).ts = "" THEN normalize(Tail(fetched))
  ELSE <<[channel_id |-> COMMAND_CHANNEL, ts |-> Head(fetched).ts]>> \o normalize(Tail(fetched))

\* newest_ts: <<>> is None.
PollResultOf(fetched) ==
  LET normalized == sort_by_ts(normalize(fetched)) IN
  [ messages |-> normalized,
    newest_ts |-> IF normalized = <<>> THEN <<>> ELSE <<normalized[Len(normalized)].ts>> ]

NoPollArgs == [last_ts |-> <<>>, max_pages |-> 0]

NoPollResult == [messages |-> <<>>, newest_ts |-> <<>>]

\* ------------------------------------------------------------ executor.py
THREAD_CONTEXT_MAX_CHARS == 12000

Agents == {"codex", "kimi", "claude"}

Threads == {"1.1", "2.2"}

\* agent_sessions: (thread_ts, agent) -> session id, 0 when there is no row;
\* thread_context: thread_ts -> text, <<>> when there is no row (one channel).
\* A text is a sequence of pieces: the characters from..to of the entry of
\* run number src, or of the blank line "\n\n" (src 0).
EmptyAgentStore ==
  [ sessions |-> [th \in Threads |-> [a \in Agents |-> 0]],
    context |-> [th \in Threads |-> <<>>] ]

BlankLine == [src |-> 0, from |-> 1, to |-> 2]

RECURSIVE TextLen(_)
TextLen(text) ==
  IF text = <<>> THEN 0 ELSE (Head(text).to - Head(text).from + 1) + TextLen(Tail(text))

\* text[-n:] for n > 0.
RECURSIVE LastChars(_, _)
LastChars(text, n) ==
  IF TextLen(text) <= n THEN text
  ELSE IF TextLen(Tail(text)) >= n THEN LastChars(Tail(text), n)
  ELSE <<[Head(text) EXCEPT !.from = Head(text).to - (n - TextLen(Tail(text))) + 1]>> \o Tail(text)

\* text[:n] for n > 0.
RECURSIVE FirstChars(_, _)
FirstChars(text, n) ==
  IF TextLen(text) <= n THEN text
  ELSE LET init == SubSeq(text, 1, Len(text) - 1)
           last == text[Len(text)]
       IN IF TextLen(init) >= n THEN FirstChars(init, n)
          ELSE init \o <<[last EXCEPT !.to = last.from + (n - TextLen(init)) - 1]>>

AgentNameLen(agent) ==
  CASE agent = "codex" -> 5
    [] agent = "kimi" -> 4
    [] agent = "claude" -> 6

\* len(f"agent={agent}\nuser={prompt}\nassistant={response}")
EntryLen(agent, prompt_len, response_len) ==
  6 + AgentNameLen(agent) + 6 + prompt_len + 11 + response_len

EntryOf(run_no, agent, prompt_len, response_len) ==
  << [src |-> run_no, from |-> 1, to |-> EntryLen(agent, prompt_len, response_len)] >>

\* Mutation: the first 12,000 characters are kept.
append_thread_context_keeps_head(context, thread, agent, prompt_len, response_len, run_no) ==
  IF response_len = 0 THEN context
  ELSE
    LET existing == context[thread]
        entry == EntryOf(run_no, agent, prompt_len, response_len)
        merged == IF existing = <<>> THEN entry ELSE existing \o <<BlankLine>> \o entry
    IN [context EXCEPT ![thread] =
          IF TextLen(merged) > THREAD_CONTEXT_MAX_CHARS
            THEN FirstChars(merged, THREAD_CONTEXT_MAX_CHARS) ELSE merged]

\* response_len: the length of the stripped response.
append_thread_context(context, thread, agent, prompt_len, response_len, run_no) ==
  IF response_len = 0 THEN context
  ELSE
    LET existing == context[thread]
        entry == EntryOf(run_no, agent, prompt_len, response_len)
        merged == IF existing = <<>> THEN entry ELSE existing \o <<BlankLine>> \o entry
    IN [context EXCEPT ![thread] =
          IF TextLen(merged) > THREAD_CONTEXT_MAX_CHARS
            THEN LastChars(merged, THREAD_CONTEXT_MAX_CHARS) ELSE merged]

persist_session(sessions, thread, agent, session_id) ==
  IF session_id = 0 THEN sessions
  ELSE [sessions EXCEPT ![thread][agent] = session_id]

\* proc is what the subprocess did: outcome "exit0", "exit1", "timeout" or
\* "oserror"; thread_id: the id of the first thread.started event with one
\* (0: none); response_len: the length of the stripped response.
\* Mutation: the session is stored whatever the exit code.
run_codex_persists_always(st, thread, proc, run_no) ==
  LET existing_session_id == st.sessions[thread]["codex"]
      cmd == IF existing_session_id # 0
               THEN [agent |-> "codex", form |-> "exec resume", session_id |-> existing_session_id]
               ELSE [agent |-> "codex", form |-> "exec", session_id |-> 0]
      session_id == IF proc.thread_id # 0 THEN proc.thread_id ELSE existing_session_id
  IN
  IF proc.outcome \in {"timeout", "oserror"}
    THEN [store |-> st, cmd |-> cmd, status |-> FAILED]
  ELSE IF proc.outcome = "exit0"
    THEN [store |-> [sessions |-> persist_session(st.sessions, thread, "codex", session_id),
                     context |-> append_thread_context(st.context, thread, "codex",
                                   proc.prompt_len, proc.response_len, run_no)],
          cmd |-> cmd, status |-> SUCCEEDED]
    ELSE [store |-> [st EXCEPT !.sessions = persist_session(st.sessions, thread, "codex", session_id)],
          cmd |-> cmd, status |-> FAILED]

run_codex(st, thread, proc, run_no) ==
  LET existing_session_id == st.sessions[thread]["codex"]
      cmd == IF existing_session_id # 0
               THEN [agent |-> "codex", form |-> "exec resume", session_id |-> existing_session_id]
               ELSE [agent |-> "codex", form |-> "exec", session_id |-> 0]
      session_id == IF proc.thread_id # 0 THEN proc.thread_id ELSE existing_session_id
  IN
  IF proc.outcome \in {"timeout", "oserror"}
    THEN [store |-> st, cmd |-> cmd, status |-> FAILED]
  ELSE IF proc.outcome = "exit0"
    THEN [store |-> [sessions |-> persist_session(st.sessions, thread, "codex", session_id),
                     context |-> append_thread_context(st.context, thread, "codex",
                                   proc.prompt_len, proc.response_len, run_no)],
          cmd |-> cmd, status |-> SUCCEEDED]
    ELSE [store |-> st, cmd |-> cmd, status |-> FAILED]

\* _get_or_create_session: the stored id, or a fresh uuid.
get_or_create_session(sessions, thread, agent, run_no) ==
  IF sessions[thread][agent] # 0 THEN sessions[thread][agent] ELSE 100 + run_no

run_kimi(st, thread, proc, run_no) ==
  LET session_id == get_or_create_session(st.sessions, thread, "kimi", run_no)
      cmd == [agent |-> "kimi", form |-> "-S", session_id |-> session_id]
  IN
  IF proc.outcome = "exit0"
    THEN [store |-> [sessions |-> persist_session(st.sessions, thread, "kimi", session_id),
                     context |-> append_thread_context(st.context, thread, "kimi",
                                   proc.prompt_len, proc.response_len, run_no)],
          cmd |-> cmd, status |-> SUCCEEDED]
    ELSE [store |-> st, cmd |-> cmd, status |-> FAILED]

run_claude(st, thread, proc, run_no) ==
  LET cmd == [agent |-> "claude", form |-> "-p", session_id |-> 0] IN
  IF proc.outcome = "exit0"
    THEN [store |-> [st EXCEPT !.context = append_thread_context(st.context, thread, "claude",
                                             proc.prompt_len, proc.response_len, run_no)],
          cmd |-> cmd, status |-> SUCCEEDED]
    ELSE [store |-> st, cmd |-> cmd, status |-> FAILED]

\* TaskExecutor.execute for the agent commands with a prompt.
execute(st, agent, thread, proc, run_no) ==
  CASE agent = "codex" -> run_codex(st, thread, proc, run_no)
    [] agent = "kimi" -> run_kimi(st, thread, proc, run_no)
    [] agent = "claude" -> run_claude(st, thread, proc, run_no)

NoRun ==
  [ thread |-> "", agent |-> "", outcome |-> "", thread_id |-> 0, prompt_len |-> 0,
    response_len |-> 0, cmd |-> [agent |-> "", form |-> "", session_id |-> 0], status |-> "" ]

\* ------------------------------------------------------------------ state
VARIABLES
  cfg,                \* AppConfig returned by load_config
  starts,             \* how many times run() has been started
  pc,                 \* position of the main loop of run()
  processed,          \* table processed_messages
  tasks,              \* table tasks
  locks,              \* table execution_locks
  approvals,          \* table task_approvals
  queue,              \* TaskQueue of run()
  incoming_messages,  \* run(): messages of the batch not yet handled
  incoming_reactions, \* run(): reactions of the batch not yet handled
  enqueued,           \* run(): sum of the handlers' return values this cycle
  cur,                \* _drain_queue: the task being handled (<<>> or <<task>>)
  result,             \* _drain_queue: status of the result of cur ("" if none)
  deferred,           \* _drain_queue: deferred
  in_flight,          \* _drain_queue: in_flight (tasks whose future is awaited)
  drain_pool,         \* _drain_queue: process_pool is not None
  last_reaction,      \* run(): the reaction the loop handled last (<<>> or <<reaction>>)
  last_message,       \* run(): the message the loop handled last (<<>> or <<message>>)
  pool_started,       \* the manager thread of the ProcessPoolExecutor has been started
  worker,             \* state of the pool work item of each task
  execCount,          \* history: executor invocations per task
  casTrue,            \* history: successful PENDING->RUNNING transitions per task
  deferCount,         \* history: lock-busy deferrals per task
  resolveTrue,        \* history: successful resolve_task_approval calls per task
  reports,            \* history: the reporter.report calls per task
  plans,              \* history: reasons of the plan messages posted per task
  task_queue,         \* a TaskQueue driven on its own
  enqueue_log,        \* history: the tasks task_queue.enqueue accepted, in order
  dequeue_log,        \* history: the tasks task_queue.dequeue returned, in order
  queue_ret,          \* the last call on task_queue and what it returned
  queue_ops,          \* number of calls made on task_queue
  socket_listener,    \* a SlackSocketModeListener: _socket, and the calls it made so far
  socket_frame,       \* what sock.recv() did in the last receive call
  socket_trace,       \* the calls the last receive call made, in order
  socket_ret,         \* what the last receive call returned
  socket_calls,       \* number of receive calls made
  poll_pc,            \* SlackChannelListener.poll: "idle", "loop", "normalize" or "done"
  poll_args,          \* poll: last_ts, and the listener's max_pages
  poll_cursor,        \* poll: cursor
  poll_fetched,       \* poll: fetched
  poll_calls,         \* history: the conversations_history calls of this poll
  poll_replies,       \* history: has_more and next_cursor of each reply
  poll_result,        \* the PollResult returned
  exec_store,         \* tables agent_sessions and thread_context
  exec_last,          \* the last agent run: its inputs, its command line, its status
  exec_runs,          \* number of agent runs made
  ctx_store,          \* table thread_context while the tasks of a drain append to it
  ctx_seen,           \* per task: what get_thread_context returned to its running append
  ctx_written,        \* history: the tasks whose append called upsert_thread_context
  call_args,          \* the last call of a function called on its own: its name and arguments
  call_ret,           \* what that call returned
  channel,            \* poll loop: the ts of the messages in the command channel
  checkpoint,         \* poll loop: the stored checkpoint last_ts:<channel>, <<>> for none
  loop_last_ts,       \* poll loop: run()'s local last_ts
  loop_pc,            \* poll loop: "down", "poll" or "intake"
  loop_batch,         \* poll loop: the messages of the poll result not yet handled
  handed,             \* history: the ts handed to _process_command_message
  loop_listener,      \* poll loop: batch_size and max_pages of the listener
  loop_starts         \* poll loop: number of starts of the process

store_vars == <<processed, tasks, locks, approvals>>
loop_vars == <<queue, incoming_messages, incoming_reactions, enqueued, last_reaction, last_message>>
drain_vars == <<cur, result, deferred, in_flight, drain_pool>>
hist_vars == <<execCount, casTrue, deferCount, resolveTrue, reports, plans>>
program_vars == <<cfg, starts, pc, processed, tasks, locks, approvals, queue,
                  incoming_messages, incoming_reactions, enqueued, cur, result, deferred,
                  in_flight, drain_pool, last_reaction, last_message, pool_started, worker, execCount,
                  casTrue,
                  deferCount, resolveTrue, reports, plans>>

queue_vars == <<task_queue, enqueue_log, dequeue_log, queue_ret, queue_ops>>
\* The components driven on their own: the program's actions leave them alone.
socket_vars == <<socket_listener, socket_frame, socket_trace, socket_ret, socket_calls>>
poll_vars == <<poll_pc, poll_args, poll_cursor, poll_fetched, poll_calls, poll_replies, poll_result>>
exec_vars == <<exec_store, exec_last, exec_runs>>
context_vars == <<ctx_store, ctx_seen, ctx_written>>
call_vars == <<call_args, call_ret>>
checkpoint_vars == <<channel, checkpoint, loop_last_ts, loop_pc, loop_batch, handed, loop_listener,
                     loop_starts>>
late_vars == <<context_vars, call_vars, checkpoint_vars>>
early_vars == <<queue_vars, socket_vars, poll_vars, exec_vars, checkpoint_vars>>
unit_vars == <<queue_vars, socket_vars, poll_vars, exec_vars, late_vars>>
vars == <<program_vars, unit_vars>>

AppendCap(s, x) == IF Len(s) < CountCap THEN Append(s, x) ELSE s

NoCall == [name |-> "none"]

NoListener == [batch_size |-> 0, max_pages |-> 0]

\* run() has not been started: the store is empty, nothing is in memory.
ProgramDown ==
  /\ starts = 0
  /\ pc = "down"
  /\ processed = {}
  /\ tasks = <<>>
  /\ locks = {}
  /\ approvals = <<>>
  /\ queue = EmptyQueue
  /\ incoming_messages = <<>>
  /\ incoming_reactions = <<>>
  /\ enqueued = 0
  /\ cur = <<>>
  /\ result = ""
  /\ deferred = <<>>
  /\ in_flight = <<>>
  /\ drain_pool = FALSE
  /\ last_reaction = <<>>
  /\ last_message = <<>>
  /\ pool_started = FALSE
  /\ worker = [t \in Tasks |-> "none"]
  /\ execCount = [t \in Tasks |-> 0]
  /\ casTrue = [t \in Tasks |-> 0]
  /\ deferCount = [t \in Tasks |-> 0]
  /\ resolveTrue = [t \in Tasks |-> 0]
  /\ reports = [t \in Tasks |-> <<>>]
  /\ plans = [t \in Tasks |-> <<>>]

\* No call has been made on the components driven on their own.
UnitIdle ==
  /\ task_queue = EmptyQueue
  /\ enqueue_log = <<>>
  /\ dequeue_log = <<>>
  /\ queue_ret = [op |-> "none"]
  /\ queue_ops = 0
  /\ socket_listener = NewSocketListener
  /\ socket_frame = NoFrame
  /\ socket_trace = <<>>
  /\ socket_ret = EmptyBatch
  /\ socket_calls = 0
  /\ poll_pc = "idle"
  /\ poll_args = NoPollArgs
  /\ poll_cursor = ""
  /\ poll_fetched = <<>>
  /\ poll_calls = <<>>
  /\ poll_replies = <<>>
  /\ poll_result = NoPollResult
  /\ exec_store = EmptyAgentStore
  /\ exec_last = NoRun
  /\ exec_runs = 0
  /\ ctx_store = EmptyAgentStore.context
  /\ ctx_seen = <<>>
  /\ ctx_written = {}
  /\ call_args = NoCall
  /\ call_ret = NoCall
  /\ channel = {}
  /\ checkpoint = <<>>
  /\ loop_last_ts = <<>>
  /\ loop_pc = "down"
  /\ loop_batch = <<>>
  /\ handed = {}
  /\ loop_listener = NoListener
  /\ loop_starts = 0

Init ==
  /\ cfg \in Configs
  /\ ProgramDown
  /\ UnitIdle

\* ------------------------------------------------------- handlers, app.py
\* reporter.report inside try/except: the call posts the report unless the
\* post raises (report_ok = FALSE); the exception is swallowed.
try_report(rp, task, status, report_ok) ==
  [rp EXCEPT ![task.task_id] = AppendCap(@, [status |-> status, posted |-> report_ok])]

\* _materialize_task_images: "fail" is a download error or an oversize image.
\* Mutation: a failed download skipped instead of raised.
materialize_task_images_skips_failure(task, message, download) ==
  IF message.files = 0 \/ download = "fail"
    THEN [ok |-> TRUE, task |-> task]
    ELSE [ok |-> TRUE, task |-> [task EXCEPT !.image_paths = message.files]]

materialize_task_images(task, message, download) ==
  IF message.files = 0
    THEN [ok |-> TRUE, task |-> task]
    ELSE IF download = "fail"
      THEN [ok |-> FALSE, task |-> task]
      ELSE [ok |-> TRUE, task |-> [task EXCEPT !.image_paths = message.files]]

\* The state the handlers of the main loop read and write.
HandlerState ==
  [ processed |-> processed, tasks |-> tasks, approvals |-> approvals,
    queue |-> queue, reports |-> reports, plans |-> plans,
    resolveTrue |-> resolveTrue, ret |-> 0 ]

PostOutcomes == {"ok", "no_ts", "fail", "record_fail"}

\* Mutation: the approval row written before the failure survives it.
request_reaction_approval_row_survives(st, task, reason, post, report_ok) ==
  LET recorded == [st EXCEPT
          !.plans = [st.plans EXCEPT ![task.task_id] = AppendCap(@, reason)],
          !.approvals = upsert_task_approval(st.approvals, task.task_id, task.message_ts,
                          IF post = "ok" THEN PlanTs(task.message_ts) ELSE task.message_ts,
                          APPROVE_REACTION, REJECT_REACTION)]
  IN
  IF post \in {"ok", "no_ts"} THEN recorded
  ELSE IF post = "record_fail"
    THEN [recorded EXCEPT
            !.tasks = update_task_status(st.tasks, task.task_id, FAILED),
            !.reports = try_report(st.reports, task, FAILED, report_ok)]
    ELSE [st EXCEPT
            !.tasks = update_task_status(st.tasks, task.task_id, FAILED),
            !.reports = try_report(st.reports, task, FAILED, report_ok)]

\* post: "ok" (Slack returns the ts of the plan message), "no_ts" (the
\* response carries no ts), "fail" (chat_post_message raises) or
\* "record_fail" (the plan is posted and upsert_task_approval raises, its
\* transaction not committed).
request_reaction_approval(st, task, reason, post, report_ok) ==
  IF post \in {"ok", "no_ts"}
    THEN [st EXCEPT
            !.plans = [st.plans EXCEPT ![task.task_id] = AppendCap(@, reason)],
            !.approvals = upsert_task_approval(st.approvals, task.task_id, task.message_ts,
                            IF post = "ok" THEN PlanTs(task.message_ts) ELSE task.message_ts,
                            APPROVE_REACTION, REJECT_REACTION)]
    ELSE [st EXCEPT
            !.plans = IF post = "record_fail"
                        THEN [st.plans EXCEPT ![task.task_id] = AppendCap(@, reason)]
                        ELSE st.plans,
            !.tasks = update_task_status(st.tasks, task.task_id, FAILED),
            !.reports = try_report(st.reports, task, FAILED, report_ok)]

process_command_message(config, st, message, download, post, report_ok) ==
  LET marked == mark_message_processed(st.processed, message.ts)
      st1 == [st EXCEPT !.processed = marked.processed]
      decision == decide_message(message)
      images == materialize_task_images(TaskOf(message), message, download)
      task == images.task
      disallowed == IF config.approval_mode = "reaction" /\ task.prefix = "sh"
                      THEN disallowed_shell_commands(task.segments, SHELL_ALLOWLIST)
                      ELSE <<>>
  IN
  IF ~marked.ok THEN st
  ELSE IF ~decision.should_run THEN st1
  ELSE IF task_exists(st1.tasks, task.task_id) THEN st1
  ELSE IF ~images.ok
    THEN [st1 EXCEPT
            !.tasks = upsert_task(st1.tasks, task.task_id, FAILED, task_payload(task)),
            !.reports = try_report(st1.reports, task, FAILED, report_ok)]
  ELSE IF disallowed # <<>>
    THEN request_reaction_approval(
           [st1 EXCEPT !.tasks = upsert_task(st1.tasks, task.task_id, WAITING_APPROVAL,
                                             task_payload(task))],
           task, disallowed, post, report_ok)
  ELSE LET st2 == [st1 EXCEPT !.tasks = upsert_task(st1.tasks, task.task_id, PENDING,
                                                    task_payload(task))]
           enq == enqueue(st2.queue, task)
       IN [st2 EXCEPT !.queue = enq.queue, !.ret = IF enq.ok THEN 1 ELSE 0]

\* Mutation: the reject reaction approves.
decision_status_of_reject_approves(approval, normalized_reaction) ==
  IF normalized_reaction \in {approval.approve_reaction, approval.reject_reaction}
    THEN APPROVED
    ELSE ""

\* Mutation: every reaction that is not the approve reaction rejects.
decision_status_of_else_rejects(approval, normalized_reaction) ==
  IF normalized_reaction = approval.approve_reaction THEN APPROVED ELSE REJECTED

\* The decision a reaction name stands for ("" for none), lines 367-374.
decision_status_of(approval, normalized_reaction) ==
  IF normalized_reaction = approval.approve_reaction THEN APPROVED
  ELSE IF normalized_reaction = approval.reject_reaction THEN REJECTED
  ELSE ""

process_reaction_event(st, reaction, report_ok) ==
  LET matching == PendingApprovalsFor(st.approvals, reaction.message_ts) IN
  IF matching = {} THEN st
  ELSE
    LET task_id == CHOOSE id \in matching : \A other \in matching : id <= other
        approval == st.approvals[task_id]
        normalized_reaction == StripColons(reaction.reaction)
        decision_status == decision_status_of(approval, normalized_reaction)
        resolved == resolve_task_approval(st.approvals, task_id, decision_status,
                                          reaction.user, normalized_reaction)
        st1 == [st EXCEPT !.approvals = resolved.approvals,
                          !.resolveTrue = [st.resolveTrue EXCEPT ![task_id] = Inc(@)]]
    IN
    IF decision_status = "" THEN st
    ELSE IF ~resolved.ok THEN st
    ELSE IF ~task_exists(st1.tasks, task_id) THEN st1
    ELSE
      LET task == task_from_payload(task_id, st1.tasks[task_id].payload) IN
      IF decision_status = APPROVED
        THEN LET st2 == [st1 EXCEPT !.tasks = update_task_status(st1.tasks, task_id, PENDING)]
                 enq == enqueue(st2.queue, task)
             IN [st2 EXCEPT !.queue = enq.queue, !.ret = IF enq.ok THEN 1 ELSE 0]
        ELSE [st1 EXCEPT
                !.tasks = update_task_status(st1.tasks, task_id, CANCELED),
                !.reports = try_report(st1.reports, task, CANCELED, report_ok)]

\* The states of the store in which process_command_message can be cut short
\* by the death of the process: after each commit that is followed by more
\* work of the handler.
command_message_commit_points(config, st, message, download, post) ==
  LET marked == mark_message_processed(st.processed, message.ts)
      st1 == [st EXCEPT !.processed = marked.processed]
      images == materialize_task_images(TaskOf(message), message, download)
      task == images.task
      disallowed == IF config.approval_mode = "reaction" /\ task.prefix = "sh"
                      THEN disallowed_shell_commands(task.segments, SHELL_ALLOWLIST)
                      ELSE <<>>
      waiting == [st1 EXCEPT !.tasks = upsert_task(st1.tasks, task.task_id, WAITING_APPROVAL,
                                                   task_payload(task))]
  IN
  IF ~marked.ok THEN {}
  ELSE IF ~decide_message(message).should_run \/ task_exists(st1.tasks, task.task_id)
    THEN {st1}
  ELSE IF ~images.ok
    THEN {st1, [st1 EXCEPT !.tasks = upsert_task(st1.tasks, task.task_id, FAILED,
                                                 task_payload(task))]}
  ELSE IF disallowed # <<>>
    THEN {st1, waiting,
          IF post # "fail"
            THEN [waiting EXCEPT !.plans = [waiting.plans EXCEPT ![task.task_id] =
                                              AppendCap(@, disallowed)]]
            ELSE [waiting EXCEPT !.tasks = update_task_status(waiting.tasks, task.task_id,
                                                              FAILED)]}
  ELSE {st1, [st1 EXCEPT !.tasks = upsert_task(st1.tasks, task.task_id, PENDING,
                                               task_payload(task))]}

\* The same for process_reaction_event: after resolve_task_approval, and after
\* the status update that follows it.
reaction_event_commit_points(st, reaction) ==
  LET matching == PendingApprovalsFor(st.approvals, reaction.message_ts) IN
  IF matching = {} THEN {}
  ELSE
    LET task_id == CHOOSE id \in matching : \A other \in matching : id <= other
        normalized_reaction == StripColons(reaction.reaction)
        decision_status == decision_status_of(st.approvals[task_id], normalized_reaction)
        resolved == resolve_task_approval(st.approvals, task_id, decision_status,
                                          reaction.user, normalized_reaction)
        st1 == [st EXCEPT !.approvals = resolved.approvals,
                          !.resolveTrue = [st.resolveTrue EXCEPT ![task_id] = Inc(@)]]
    IN
    IF decision_status = "" \/ ~resolved.ok THEN {}
    ELSE {st1,
          [st1 EXCEPT !.tasks = update_task_status(st1.tasks, task_id,
                                  IF decision_status = APPROVED THEN PENDING ELSE CANCELED)]}

ApplyHandlerState(st) ==
  /\ processed' = st.processed
  /\ tasks' = st.tasks
  /\ approvals' = st.approvals
  /\ queue' = st.queue
  /\ reports' = st.reports
  /\ plans' = st.plans
  /\ resolveTrue' = st.resolveTrue
  /\ enqueued' = enqueued + st.ret

\* ---------------------------------------------------------- run(), app.py
RECURSIVE SortedSeq(_)
SortedSeq(S) ==
  IF S = {} THEN <<>>
  ELSE LET least == CHOOSE x \in S : \A y \in S : x <= y
       IN <<least>> \o SortedSeq(S \ {least})

\* Startup: init_schema on the existing file, then the sweep of running tasks.
Start ==
  /\ pc = "down"
  /\ starts < MaxStarts
  /\ starts' = starts + 1
  /\ tasks' = mark_running_tasks_aborted(tasks).tasks
  /\ pc' = "listen"
  /\ UNCHANGED <<cfg, processed, locks, approvals, pool_started, worker>>
  /\ UNCHANGED <<loop_vars, drain_vars, hist_vars>>
  /\ UNCHANGED unit_vars

\* What the death of the orchestrator leaves of its memory: nothing.  Pool
\* workers are separate processes and may still run what was handed to them;
\* a work item the pool never dispatched is lost with the process.
LoseMemory ==
  /\ pc' = "down"
  /\ queue' = EmptyQueue
  /\ incoming_messages' = <<>>
  /\ incoming_reactions' = <<>>
  /\ enqueued' = 0
  /\ last_reaction' = <<>>
  /\ last_message' = <<>>
  /\ cur' = <<>>
  /\ result' = ""
  /\ deferred' = <<>>
  /\ in_flight' = <<>>
  /\ drain_pool' = FALSE
  /\ pool_started' = FALSE
  /\ worker' = [t \in DOMAIN worker |-> IF worker[t] = "orphaned" THEN "none" ELSE worker[t]]

\* The process dies (kill, power loss, an exception leaving run()); the store
\* keeps what was committed.
Crash ==
  /\ pc # "down"
  /\ starts < MaxStarts
  /\ LoseMemory
  /\ UNCHANGED <<cfg, starts, store_vars, hist_vars>>
  /\ UNCHANGED unit_vars

\* The process dies inside a handler of the main loop.
CrashInHandler ==
  /\ pc = "handle"
  /\ starts < MaxStarts
  /\ \/ /\ incoming_messages # <<>>
        /\ \E download \in {"ok", "fail"}, post \in {"ok", "fail"} :
             \E mid \in command_message_commit_points(cfg, HandlerState,
                           MessageOf(Head(incoming_messages)), download, post) :
               ApplyHandlerState(mid)
     \/ /\ incoming_messages = <<>>
        /\ incoming_reactions # <<>>
        /\ \E mid \in reaction_event_commit_points(HandlerState, Head(incoming_reactions)) :
             ApplyHandlerState(mid)
  /\ pc' = "down"
  /\ incoming_messages' = <<>>
  /\ incoming_reactions' = <<>>
  /\ last_reaction' = <<>>
  /\ last_message' = <<>>
  /\ UNCHANGED <<cfg, starts, locks, drain_vars, pool_started, worker, execCount, casTrue,
                 deferCount>>
  /\ UNCHANGED unit_vars

\* Socket mode: receive returns at most one event (none on a timeout, on a
\* filtered frame or on a listen error); _parse_reaction_event strips the
\* colons of the reaction name.
ListenSocket ==
  /\ pc = "listen"
  /\ cfg.listener_mode = "socket"
  /\ \/ incoming_messages' = <<>> /\ incoming_reactions' = <<>>
     \/ \E t \in Tasks : incoming_messages' = <<t>> /\ incoming_reactions' = <<>>
     \/ \E r \in SlackReactions :
          /\ incoming_messages' = <<>>
          /\ incoming_reactions' = << [r EXCEPT !.reaction = StripColons(r.reaction)] >>
  /\ enqueued' = 0
  /\ pc' = "handle"
  /\ UNCHANGED <<cfg, starts, store_vars, queue, last_reaction, last_message, drain_vars,
                 pool_started,
                 worker, hist_vars>>
  /\ UNCHANGED unit_vars

\* Poll mode: a batch of messages sorted by ts, no reactions.
ListenPoll ==
  /\ pc = "listen"
  /\ cfg.listener_mode = "poll"
  /\ \E batch \in SUBSET Tasks : incoming_messages' = SortedSeq(batch)
  /\ incoming_reactions' = <<>>
  /\ enqueued' = 0
  /\ pc' = "handle"
  /\ UNCHANGED <<cfg, starts, store_vars, queue, last_reaction, last_message, drain_vars,
                 pool_started,
                 worker, hist_vars>>
  /\ UNCHANGED unit_vars

ProcessCommandMessage ==
  /\ pc = "handle"
  /\ incoming_messages # <<>>
  /\ \E download \in {"ok", "fail"}, post \in PostOutcomes, report_ok \in BOOLEAN :
       ApplyHandlerState(process_command_message(cfg, HandlerState,
                           MessageOf(Head(incoming_messages)), download, post, report_ok))
  /\ incoming_messages' = Tail(incoming_messages)
  /\ last_message' = <<Head(incoming_messages)>>
  /\ UNCHANGED <<cfg, starts, pc, locks, incoming_reactions, last_reaction, drain_vars,
                 pool_started, worker, execCount, casTrue, deferCount>>
  /\ UNCHANGED unit_vars

ProcessReactionEvent ==
  /\ pc = "handle"
  /\ incoming_messages = <<>>
  /\ incoming_reactions # <<>>
  /\ \E report_ok \in BOOLEAN :
       ApplyHandlerState(process_reaction_event(HandlerState, Head(incoming_reactions),
                                                report_ok))
  /\ incoming_reactions' = Tail(incoming_reactions)
  /\ last_reaction' = <<Head(incoming_reactions)>>
  /\ UNCHANGED <<cfg, starts, pc, locks, incoming_messages, last_message, drain_vars,
                 pool_started, worker,
                 execCount, casTrue, deferCount>>
  /\ UNCHANGED unit_vars

\* --------------------------------------------------- _drain_queue, app.py
BeginDrain ==
  /\ pc = "handle"
  /\ incoming_messages = <<>>
  /\ incoming_reactions = <<>>
  /\ pc' = "drain"
  /\ drain_pool' = (cfg.worker_processes > 1)
  /\ deferred' = <<>>
  /\ in_flight' = <<>>
  /\ last_reaction' = <<>>
  /\ last_message' = <<>>
  /\ UNCHANGED <<cfg, starts, store_vars, queue, incoming_messages, incoming_reactions,
                 enqueued, cur, result, pool_started, worker, hist_vars>>
  /\ UNCHANGED unit_vars

\* queue.dequeue() and the claim transition_task_status(PENDING, RUNNING).
DrainDequeue ==
  /\ pc = "drain"
  /\ LET d == dequeue(queue) IN
     IF ~d.some
       THEN /\ pc' = "await"
            /\ UNCHANGED <<queue, tasks, cur, casTrue>>
       ELSE LET cas == transition_task_status(tasks, d.task.task_id, PENDING, RUNNING) IN
            /\ queue' = d.queue
            /\ tasks' = cas.tasks
            /\ IF cas.ok
                 THEN /\ cur' = <<d.task>>
                      /\ casTrue' = [casTrue EXCEPT ![d.task.task_id] = Inc(@)]
                      /\ pc' = "claimed"
                 ELSE /\ pc' = "drain"
                      /\ UNCHANGED <<cur, casTrue>>
  /\ UNCHANGED <<cfg, starts, processed, locks, approvals, incoming_messages,
                 incoming_reactions, enqueued, last_reaction, last_message, result, deferred,
                 in_flight,
                 drain_pool, pool_started, worker, execCount, deferCount, resolveTrue,
                 reports, plans>>
  /\ UNCHANGED unit_vars

DrainAcquire ==
  /\ pc = "claimed"
  /\ LET task == cur[1]
         acq == acquire_execution_lock(locks, task.lock_key, task.task_id)
     IN
     /\ locks' = acq.locks
     /\ IF acq.ok
          THEN /\ pc' = "dispatch"
               /\ UNCHANGED <<tasks, deferred, cur, deferCount>>
          ELSE /\ tasks' = update_task_status(tasks, task.task_id, PENDING)
               /\ deferred' = Append(deferred, task)
               /\ deferCount' = [deferCount EXCEPT ![task.task_id] = Inc(@)]
               /\ cur' = <<>>
               /\ pc' = "drain"
  /\ UNCHANGED <<cfg, starts, processed, approvals, loop_vars, result, in_flight,
                 drain_pool, pool_started, worker, execCount, casTrue, resolveTrue,
                 reports, plans>>
  /\ UNCHANGED unit_vars

\* process_pool.submit.  ProcessPoolExecutor.submit registers the work item
\* and then, on the first call, launches the worker processes and starts the
\* manager thread that dispatches every registered item.  So the call
\*   - returns the future;
\*   - raises before it registers the item (broken pool, pool shut down);
\*   - raises while launching the processes (fork fails), the item registered
\*     and the manager thread not started: a later submit that succeeds
\*     dispatches that item too.
\* After a raise the drain continues inline (process_pool = None) with the
\* same task.
DrainSubmit ==
  /\ pc = "dispatch"
  /\ drain_pool
  /\ \/ /\ worker' = [t \in DOMAIN worker |->
                        IF t = cur[1].task_id \/ worker[t] = "orphaned"
                          THEN "submitted" ELSE worker[t]]
        /\ pool_started' = TRUE
        /\ in_flight' = Append(in_flight, cur[1])
        /\ cur' = <<>>
        /\ pc' = "drain"
        /\ UNCHANGED drain_pool
     \/ /\ drain_pool' = FALSE
        /\ UNCHANGED <<pool_started, worker, in_flight, cur, pc>>
     \/ /\ ~pool_started
        /\ worker' = [worker EXCEPT ![cur[1].task_id] = "orphaned"]
        /\ drain_pool' = FALSE
        /\ UNCHANGED <<pool_started, in_flight, cur, pc>>
  /\ UNCHANGED <<cfg, starts, store_vars, loop_vars, result, deferred, hist_vars>>
  /\ UNCHANGED unit_vars

\* executor.execute(task, store=store) in the main process: entered ...
ExecuteInline ==
  /\ pc = "dispatch"
  /\ ~drain_pool
  /\ execCount' = [execCount EXCEPT ![cur[1].task_id] = Inc(@)]
  /\ pc' = "executing"
  /\ UNCHANGED <<cfg, starts, store_vars, loop_vars, drain_vars, pool_started, worker,
                 casTrue, deferCount, resolveTrue, reports, plans>>
  /\ UNCHANGED unit_vars

\* ... and returned: a result, or an exception turned into a FAILED result.
ExecuteReturn ==
  /\ pc = "executing"
  /\ \E outcome \in {SUCCEEDED, FAILED} : result' = outcome
  /\ pc' = "finish_inline"
  /\ UNCHANGED <<cfg, starts, store_vars, loop_vars, cur, deferred, in_flight,
                 drain_pool, pool_started, worker, hist_vars>>
  /\ UNCHANGED unit_vars

\* Mutation: _finish_task that reports without storing the status.
finish_task_report_only(tk, rp, task, status, report_ok) ==
  [ tasks |-> tk,
    reports |-> try_report(rp, task, status, report_ok) ]

\* Mutation: _finish_task that stores the status only after a report that
\* went through.
finish_task_status_after_report(tk, rp, task, status, report_ok) ==
  [ tasks |-> IF report_ok THEN update_task_status(tk, task.task_id, status) ELSE tk,
    reports |-> try_report(rp, task, status, report_ok) ]

finish_task(tk, rp, task, status, report_ok) ==
  [ tasks |-> update_task_status(tk, task.task_id, status),
    reports |-> try_report(rp, task, status, report_ok) ]

FinishTask ==
  /\ pc \in {"finish_inline", "finish_await"}
  /\ \E report_ok \in BOOLEAN :
       LET fin == finish_task(tasks, reports, cur[1], result, report_ok) IN
       /\ tasks' = fin.tasks
       /\ reports' = fin.reports
  /\ pc' = IF pc = "finish_inline" THEN "release_inline" ELSE "release_await"
  /\ UNCHANGED <<cfg, starts, processed, locks, approvals, loop_vars, drain_vars,
                 pool_started, worker, execCount, casTrue, deferCount, resolveTrue, plans>>
  /\ UNCHANGED unit_vars

\* _finish_task whose store.update_task_status raises (the database is
\* locked by a worker's connection, the disk is full): no status is stored
\* and no report is made, the finally of the drain releases the lock of
\* this task, and the exception leaves _drain_queue: the tasks still in
\* in_flight are not awaited and the deferred tasks are not re-enqueued.
FinishTaskRaises ==
  /\ pc \in {"finish_inline", "finish_await"}
  /\ locks' = release_execution_lock(locks, cur[1].lock_key, cur[1].task_id)
  /\ cur' = <<>>
  /\ result' = ""
  /\ pc' = "unwinding"
  /\ UNCHANGED <<cfg, starts, processed, tasks, approvals, loop_vars, deferred,
                 in_flight, drain_pool, pool_started, worker, hist_vars>>
  /\ UNCHANGED unit_vars

\* The exception leaves run() through its finally: shutdown(wait=True)
\* returns when the pool has run every work item it was given, then the
\* process ends.
RunExits ==
  /\ pc = "unwinding"
  /\ \A t \in DOMAIN worker : worker[t] \notin {"submitted", "running"}
  /\ LoseMemory
  /\ UNCHANGED <<cfg, starts, store_vars, hist_vars>>
  /\ UNCHANGED unit_vars

\* finally: store.release_execution_lock(task.lock_key, task.task_id)
ReleaseLock ==
  /\ pc \in {"release_inline", "release_await"}
  /\ locks' = release_execution_lock(locks, cur[1].lock_key, cur[1].task_id)
  /\ cur' = <<>>
  /\ result' = ""
  /\ pc' = IF pc = "release_inline" THEN "drain" ELSE "await"
  /\ UNCHANGED <<cfg, starts, processed, tasks, approvals, loop_vars, deferred,
                 in_flight, drain_pool, pool_started, worker, hist_vars>>
  /\ UNCHANGED unit_vars

\* for task, future in in_flight: future.result() blocks until the worker is
\* done; an exception of the future becomes a FAILED result.
AwaitFuture ==
  /\ pc = "await"
  /\ in_flight # <<>>
  /\ LET task == Head(in_flight) IN
     /\ worker[task.task_id] \in {SUCCEEDED, FAILED, "raised"}
     /\ result' = IF worker[task.task_id] = "raised" THEN FAILED ELSE worker[task.task_id]
     /\ worker' = [worker EXCEPT ![task.task_id] = "none"]
     /\ cur' = <<task>>
  /\ in_flight' = Tail(in_flight)
  /\ pc' = "finish_await"
  /\ UNCHANGED <<cfg, starts, store_vars, loop_vars, deferred, drain_pool, pool_started,
                 hist_vars>>
  /\ UNCHANGED unit_vars

\* Mutation: the deferred tasks are not put back.
EnqueueAll_forgotten(q, ts) == q

\* Mutation: the deferred tasks re-enqueued last first.
RECURSIVE EnqueueAll_reversed(_, _)
EnqueueAll_reversed(q, ts) ==
  IF ts = <<>> THEN q ELSE enqueue(EnqueueAll_reversed(q, Tail(ts)), Head(ts)).queue

RECURSIVE EnqueueAll(_, _)
EnqueueAll(q, ts) ==
  IF ts = <<>> THEN q ELSE EnqueueAll(enqueue(q, Head(ts)).queue, Tail(ts))

\* for task in deferred: queue.enqueue(task); the drain returns and the cycle ends.
RequeueDeferred ==
  /\ pc = "await"
  /\ in_flight = <<>>
  /\ queue' = EnqueueAll(queue, deferred)
  /\ deferred' = <<>>
  /\ drain_pool' = FALSE
  /\ pc' = "listen"
  /\ UNCHANGED <<cfg, starts, store_vars, incoming_messages, incoming_reactions,
                 enqueued, last_reaction, last_message, cur, result, in_flight, pool_started,
                 worker,
                 hist_vars>>
  /\ UNCHANGED unit_vars

\* ------------------------------------- _execute_task_in_worker, app.py
InFlightIds == { in_flight[i].task_id : i \in 1..Len(in_flight) }

WorkerStart(t) ==
  /\ worker[t] = "submitted"
  /\ Cardinality({ u \in DOMAIN worker : worker[u] = "running" }) < cfg.worker_processes
  /\ worker' = [worker EXCEPT ![t] = "running"]
  /\ execCount' = [execCount EXCEPT ![t] = Inc(@)]
  /\ UNCHANGED <<cfg, starts, pc, store_vars, loop_vars, drain_vars, pool_started,
                 casTrue, deferCount, resolveTrue, reports, plans>>
  /\ UNCHANGED unit_vars

\* The worker returns a result or raises; the result of a worker whose
\* orchestrator died is read by nobody.
WorkerFinish(t) ==
  /\ worker[t] = "running"
  /\ \E outcome \in {SUCCEEDED, FAILED, "raised"} :
       worker' = [worker EXCEPT ![t] = IF t \in InFlightIds THEN outcome ELSE "none"]
  /\ UNCHANGED <<cfg, starts, pc, store_vars, loop_vars, drain_vars, pool_started,
                 hist_vars>>
  /\ UNCHANGED unit_vars

Next ==
  \/ Start
  \/ Crash
  \/ CrashInHandler
  \/ ListenSocket
  \/ ListenPoll
  \/ ProcessCommandMessage
  \/ ProcessReactionEvent
  \/ BeginDrain
  \/ DrainDequeue
  \/ DrainAcquire
  \/ DrainSubmit
  \/ ExecuteInline
  \/ ExecuteReturn
  \/ FinishTask
  \/ FinishTaskRaises
  \/ RunExits
  \/ ReleaseLock
  \/ AwaitFuture
  \/ RequeueDeferred
  \/ \E t \in Tasks : WorkerStart(t)
  \/ \E t \in Tasks : WorkerFinish(t)

Spec == Init /\ [][Next]_vars

\* ------------------------------------------- one call of _drain_queue
\* The drain seen on its own, as the runtime tests call it: the state in
\* which run() calls _drain_queue in the first cycle of a run in poll mode,
\* after the handlers took in a batch of new command messages, on a store
\* in which the previous run may have died while one task held its lock.
\* Messages 1 and 2 have the lock key "global", 3 and 7 "path:/repo".
MaxDrainQueue == 4

DrainIds == {1, 2, 3, 7}

DrainConfigs == { c \in Configs : c.listener_mode = "poll" }

\* The store and the history a run leaves that died at the dispatch of
\* the tasks of crashed, seen after the sweep of the next startup.
StateAfterRestart(crashed) ==
  [ processed |-> crashed,
    tasks |-> [ c \in crashed |->
                  [status |-> ABORTED_ON_RESTART,
                   payload |-> task_payload(TaskOf(MessageOf(c)))] ],
    approvals |-> <<>>,
    queue |-> EmptyQueue,
    reports |-> [t \in DrainIds |-> <<>>],
    plans |-> [t \in DrainIds |-> <<>>],
    resolveTrue |-> [t \in DrainIds |-> 0],
    ret |-> 0 ]

\* for message in incoming_messages: _process_command_message(...)
RECURSIVE IntakeAll(_, _, _)
IntakeAll(config, st, batch) ==
  IF batch = <<>> THEN st
  ELSE IntakeAll(config,
                 process_command_message(config, st, MessageOf(Head(batch)), "ok", "ok", TRUE),
                 Tail(batch))

DrainInit ==
  \E crashed \in SUBSET DrainIds : \E batch \in SUBSET (DrainIds \ crashed) :
    /\ Cardinality(crashed) <= 1
    /\ Cardinality(batch) <= MaxDrainQueue
    /\ cfg \in DrainConfigs
    /\ LET st == IntakeAll(cfg, StateAfterRestart(crashed), SortedSeq(batch)) IN
       /\ processed = st.processed
       /\ tasks = st.tasks
       /\ approvals = st.approvals
       /\ queue = st.queue
       /\ reports = st.reports
       /\ plans = st.plans
       /\ resolveTrue = st.resolveTrue
       /\ enqueued = Len(st.queue.items)
    /\ starts = 1 + Cardinality(crashed)
    /\ pc = "handle"
    /\ locks = { [lock_key |-> MessageOf(c).lock_key, task_id |-> c] : c \in crashed }
    /\ incoming_messages = <<>>
    /\ incoming_reactions = <<>>
    /\ last_reaction = <<>>
    /\ last_message = IF batch = {} THEN <<>> ELSE <<CHOOSE t \in batch : \A u \in batch : u <= t>>
    /\ cur = <<>>
    /\ result = ""
    /\ deferred = <<>>
    /\ in_flight = <<>>
    /\ drain_pool = FALSE
    /\ pool_started = FALSE
    /\ worker = [t \in DrainIds |-> "none"]
    /\ execCount = [t \in DrainIds |-> 0]
    /\ casTrue = [t \in DrainIds |-> IF t \in crashed THEN 1 ELSE 0]
    /\ deferCount = [t \in DrainIds |-> 0]
    /\ UnitIdle

DrainNext ==
  \/ BeginDrain
  \/ DrainDequeue
  \/ DrainAcquire
  \/ DrainSubmit
  \/ ExecuteInline
  \/ ExecuteReturn
  \/ FinishTask
  \/ FinishTaskRaises
  \/ RunExits
  \/ ReleaseLock
  \/ AwaitFuture
  \/ RequeueDeferred
  \/ \E t \in DrainIds : WorkerStart(t)
  \/ \E t \in DrainIds : WorkerFinish(t)

DrainSpec == DrainInit /\ [][DrainNext]_vars

TypeOK ==
  /\ cfg \in Configs
  /\ starts \in 0..MaxStarts
  /\ DOMAIN tasks \subseteq Tasks
  /\ \A id \in DOMAIN tasks : tasks[id].status \in TaskStatus
  /\ \A id \in DOMAIN approvals : approvals[id].status \in ApprovalStatus

\* ------------------------------------------------------------ properties
\* The ids of the tasks in the TaskQueue.
QueuedIds == { queue.items[i].task_id : i \in 1..Len(queue.items) }

\* The tasks whose command the executor is running: inline in the main
\* process, or in a pool worker.
Executing ==
  { t \in DOMAIN worker : worker[t] = "running" } \cup
  (IF pc = "executing" THEN {cur[1].task_id} ELSE {})

\* The step of the main loop that handles command message t to the end.
MessageHandled(t) ==
  /\ pc = "handle" /\ pc' = "handle"
  /\ incoming_messages # <<>>
  /\ Head(incoming_messages) = t
  /\ incoming_messages' = Tail(incoming_messages)

\* The step of the main loop that handles reaction r to the end.
ReactionHandled(r) ==
  /\ pc = "handle" /\ pc' = "handle"
  /\ incoming_messages = <<>>
  /\ incoming_reactions # <<>>
  /\ Head(incoming_reactions) = r
  /\ incoming_reactions' = Tail(incoming_reactions)

\* r targets the source message or the plan message of the approval of t.
Targets(r, t) ==
  /\ t \in DOMAIN approvals
  /\ r.message_ts \in {approvals[t].source_message_ts, approvals[t].approval_message_ts}

IsApprove(r) == r.reaction \in {"white_check_mark", ":white_check_mark:"}
IsReject(r) == r.reaction = "x"

\* C1: for every task the executor is invoked at most once, whatever the
\* sequence of cycles (duplicate deliveries, repeated reactions, deferrals,
\* pool-submit fallbacks).  Violated: a submit that raises after the pool has
\* registered the work item runs the task inline, and a later submit lets the
\* pool run it again.
C1_ExecutedAtMostOnce == \A t \in Tasks : execCount[t] <= 1

\* C2 as stated: transition_task_status(id, PENDING, RUNNING) returns true at
\* most once over the life of a task.  Violated by a lock-busy deferral, which
\* resets the task to pending.
C2_CasTrueAtMostOnce == \A t \in Tasks : casTrue[t] <= 1

\* C2 amended: the transition returns true exactly when the stored status is
\* pending, then stores running (so a second call fails), and a call that
\* returns false changes nothing; over the life of a task it returns true at
\* most once more than the task was deferred on a busy lock.
C2_CasOncePerPendingPeriod ==
  \A t \in Tasks :
    LET first == transition_task_status(tasks, t, PENDING, RUNNING)
        second == transition_task_status(first.tasks, t, PENDING, RUNNING)
    IN
    /\ first.ok <=> (t \in DOMAIN tasks /\ tasks[t].status = PENDING)
    /\ first.ok => (first.tasks[t].status = RUNNING /\ ~second.ok)
    /\ ~first.ok => first.tasks = tasks
    /\ second.tasks = first.tasks
    /\ casTrue[t] <= deferCount[t] + 1

C2_Witness ==
  \E t \in Tasks :
    casTrue[t] = 2 /\ deferCount[t] = 1 /\ t \in DOMAIN tasks /\ tasks[t].status = RUNNING

\* C3: a lock_key has at most one row; an acquire on a held key fails and
\* changes nothing, also after a release by a task that is not the owner, and
\* succeeds after the owner's release; and two tasks with the same lock_key
\* are never executing at the same time.  Violated in its last part: the work
\* item a failed submit left in the pool runs later without the lock.
C3_LockMutualExclusion ==
  /\ \A r1 \in locks, r2 \in locks : r1.lock_key = r2.lock_key => r1 = r2
  /\ \A t \in Tasks : \A u \in Tasks \ {t} :
       LET key == MessageOf(t).lock_key
           held == acquire_execution_lock(locks, key, t)
       IN held.ok =>
            /\ ~acquire_execution_lock(held.locks, key, u).ok
            /\ acquire_execution_lock(held.locks, key, u).locks = held.locks
            /\ ~acquire_execution_lock(release_execution_lock(held.locks, key, u), key, u).ok
            /\ acquire_execution_lock(release_execution_lock(held.locks, key, t), key, u).ok
  /\ \A t \in Executing, u \in Executing :
       t # u => MessageOf(t).lock_key # MessageOf(u).lock_key

\* C4: once the stored status of a task is terminal, no step changes it.
C4_TerminalIsFinal ==
  [][ \A t \in DOMAIN tasks :
        tasks[t].status \in TERMINAL_TASK_STATUSES
          => (t \in DOMAIN tasks' /\ tasks'[t].status = tasks[t].status) ]_vars

C4_Witness ==
  \E t \in DOMAIN tasks :
    /\ tasks[t].status = CANCELED
    /\ last_reaction # <<>>
    /\ last_reaction[1].message_ts = t
    /\ IsApprove(last_reaction[1])

\* C5: at most one resolve_task_approval returns true per task; on a resolved
\* record every resolve returns false whatever it carries and changes nothing,
\* and no step changes a resolved record.
C5_ResolveOnce ==
  /\ [](\A t \in Tasks : resolveTrue[t] <= 1)
  /\ [](\A t \in DOMAIN approvals :
          approvals[t].status # APPROVAL_PENDING =>
            \A status \in {APPROVED, REJECTED}, by \in Users, name \in ReactionNames :
              LET again == resolve_task_approval(approvals, t, status, by, name) IN
              ~again.ok /\ again.approvals = approvals)
  /\ [][ \A t \in DOMAIN approvals :
           approvals[t].status # APPROVAL_PENDING
             => (t \in DOMAIN approvals' /\ approvals'[t] = approvals[t]) ]_vars

C5_Witness ==
  \E t \in DOMAIN approvals :
    /\ resolveTrue[t] = 1
    /\ approvals[t].status = APPROVED
    /\ approvals[t].decided_by = "U2"
    /\ last_reaction = << [message_ts |-> t, reaction |-> "x", user |-> "U3"] >>

\* The command names of message t outside the allowlist, read off its text:
\* the first word of each segment (the modelled commands have no wrapper).
DisallowedNames(t) ==
  SelectSeq([ i \in 1..Len(MessageOf(t).segments) |-> MessageOf(t).segments[i][1] ],
            LAMBDA name : name \notin SHELL_ALLOWLIST)

NeedsApproval(t) ==
  MessageOf(t).triggered /\ MessageOf(t).prefix = "sh" /\ DisallowedNames(t) # <<>>

ApprovedByReaction(t) ==
  /\ t \in DOMAIN approvals
  /\ approvals[t].status = APPROVED
  /\ approvals[t].decision_reaction = APPROVE_REACTION

C7_NonShellWaitsForApproval ==
  [][ \A t \in Tasks :
        (/\ cfg.approval_mode = "reaction"
         /\ MessageHandled(t)
         /\ MessageOf(t).triggered
         /\ MessageOf(t).prefix = ""
         /\ t \notin processed) =>
          /\ queue' = queue
          /\ enqueued' = enqueued
          /\ Len(plans'[t]) = 1
          /\ t \in DOMAIN tasks' /\ tasks'[t].status = WAITING_APPROVAL
          /\ t \in DOMAIN approvals'
          /\ approvals'[t].status = APPROVAL_PENDING
          /\ approvals'[t].approval_message_ts = PlanTs(t) ]_vars

NoPendingApproval(r) ==
  \A t \in DOMAIN approvals :
    approvals[t].status = APPROVAL_PENDING => ~Targets(r, t)

\* C10: handling a reaction that matches no pending approval (its approval is
\* already resolved, or there is none), or whose name is neither the approve
\* nor the reject reaction, changes no task, no approval record and not the
\* queue and makes no report; no reaction changes a task that is not
\* waiting_approval; and a pending approval belongs to a task that is
\* waiting_approval.
C10_OtherReactionsAreNoOps ==
  /\ [][ \A r \in SeqRange(incoming_reactions) :
           ReactionHandled(r) =>
             /\ (NoPendingApproval(r) \/ ~(IsApprove(r) \/ IsReject(r))) =>
                  /\ tasks' = tasks
                  /\ approvals' = approvals
                  /\ queue' = queue
                  /\ enqueued' = enqueued
                  /\ reports' = reports
             /\ \A t \in DOMAIN tasks :
                  tasks[t].status # WAITING_APPROVAL =>
                    /\ tasks'[t] = tasks[t]
                    /\ reports'[t] = reports[t]
                    /\ (t \in QueuedIds') = (t \in QueuedIds) ]_vars
  /\ [](\A t \in DOMAIN approvals :
          approvals[t].status = APPROVAL_PENDING =>
            (t \in DOMAIN tasks /\ tasks[t].status = WAITING_APPROVAL))

C10_Witness ==
  \E t \in DOMAIN tasks :
    /\ last_reaction = << [message_ts |-> t, reaction |-> "x", user |-> "U3"] >>
    /\ ApprovedByReaction(t)
    /\ approvals[t].decided_by = "U2"
    /\ tasks[t].status = PENDING
    /\ reports[t] = <<>>

\* ---------------------------------------------------------------------
\* C11: after mark_running_tasks_aborted returns, no task has status
\* running, every task that was running has status aborted_on_restart,
\* the returned count is the number of tasks that were running before the
\* call, and tasks in any other status are unchanged.  The sweep is
\* evaluated on every task table the program can reach (the table a
\* restart would find).
RunningIds(tk) == { id \in DOMAIN tk : tk[id].status = RUNNING }

C11_SweepContract ==
  LET swept == mark_running_tasks_aborted(tasks) IN
  /\ DOMAIN swept.tasks = DOMAIN tasks
  /\ RunningIds(swept.tasks) = {}
  /\ swept.count = Cardinality(RunningIds(tasks))
  /\ \A id \in DOMAIN tasks :
       IF tasks[id].status = RUNNING
         THEN swept.tasks[id] = [tasks[id] EXCEPT !.status = ABORTED_ON_RESTART]
         ELSE swept.tasks[id] = tasks[id]

\* A restart has swept a table that held a running task next to a task
\* in another status: the first is aborted_on_restart, the second kept
\* its terminal status.
C11_Witness ==
  /\ starts = 2
  /\ pc = "listen"
  /\ \E t \in DOMAIN tasks : \E u \in DOMAIN tasks :
       /\ tasks[t].status = ABORTED_ON_RESTART
       /\ tasks[u].status = SUCCEEDED

\* ---------------------------------------------------------------------
\* C12: if the process crashes while a task holds an execution lock,
\* startup recovery reclaims that lock: once startup has completed, no
\* execution lock is owned by a task whose status is aborted_on_restart,
\* so a later task with the same lock_key can acquire the lock and run.
C12_StartupReclaimsLocks ==
  pc # "down" =>
    \A row \in locks : tasks[row.task_id].status # ABORTED_ON_RESTART

\* ---------------------------------------------------------------------
\* C13: on startup the orchestrator rebuilds the in-memory queue from the
\* persisted tasks: every task whose stored status is pending when the
\* process restarts is put back in the queue (and is then dispatched by
\* the next drain).  Stated on the step that completes startup.
C13_StartupRebuildsQueue ==
  [][ (pc = "down" /\ pc' = "listen") =>
        \A t \in DOMAIN tasks' :
          tasks'[t].status = PENDING => t \in queue'.task_ids ]_vars

\* ---------------------------------------------------------------------
\* C14: for every (channel_id, message_ts) pair, mark_message_processed
\* returns true on the first call and false on every later call, across
\* any number of calls, store handles and restarts; calls for different
\* pairs do not affect each other.  (One command channel: a pair is a
\* message ts.)  The table holds exactly the pairs marked so far and no
\* step, a crash and a restart included, removes a row; on every
\* reachable table a call answers true exactly for an unmarked pair, a
\* second call for the same pair answers false, and a call for one pair
\* does not change the answer for another.
C14_MarkContract ==
  \A m \in Tasks :
    LET first == mark_message_processed(processed, m)
        second == mark_message_processed(first.processed, m)
    IN /\ first.ok <=> (m \notin processed)
       /\ ~second.ok
       /\ second.processed = first.processed
       /\ \A u \in Tasks \ {m} :
            mark_message_processed(first.processed, u).ok
              = mark_message_processed(processed, u).ok

C14_MarkOncePerPair ==
  []C14_MarkContract /\ [][processed \subseteq processed']_vars

\* After a restart a message marked by the previous run is delivered
\* again while another message has never been marked.
C14_Witness ==
  /\ starts = 2
  /\ pc = "handle"
  /\ incoming_messages # <<>>
  /\ Head(incoming_messages) \in processed
  /\ \E u \in Tasks : u \notin processed

\* ---------------------------------------------------------------------
\* C15: intake of a message whose (channel_id, ts) was already marked
\* processed returns 0 and changes nothing downstream: no task record is
\* created or modified, no approval record is created, the queue is
\* unchanged, no attachment is downloaded and no plan or report is
\* posted.  Stated on the step of the main loop that handles the message,
\* and on the handler itself: whatever the download and the post would
\* answer, its result is the state it was given, with return value 0.
C15_DuplicateIntakeStep ==
  \A t \in Tasks :
    (MessageHandled(t) /\ t \in processed) =>
      UNCHANGED <<processed, tasks, approvals, queue, reports, plans, enqueued, locks>>

C15_DuplicateIntakeResult ==
  \A t \in processed :
    \A download \in {"ok", "fail"}, post \in PostOutcomes, report_ok \in BOOLEAN :
      LET out == process_command_message(cfg, HandlerState, MessageOf(t), download, post,
                                         report_ok)
      IN out = HandlerState /\ out.ret = 0

C15_DuplicateIntakeIsNoOp ==
  []C15_DuplicateIntakeResult /\ [][C15_DuplicateIntakeStep]_vars

\* The loop has just handled message t again although the task made from
\* its first delivery has already been run to the end.
C15_Witness ==
  \E t \in Tasks :
    /\ pc = "handle"
    /\ last_message = <<t>>
    /\ t \in DOMAIN tasks
    /\ tasks[t].status = SUCCEEDED
    /\ reports[t] # <<>>

\* ---------------------------------------------------------------------
\* The positions of _drain_queue between its first dequeue and its return.
DrainPcs ==
  {"drain", "claimed", "dispatch", "executing", "finish_inline", "release_inline",
   "await", "finish_await", "release_await"}

\* The step on which _drain_queue returns to the main loop.
DrainReturns == pc = "await" /\ pc' = "listen"

\* The tasks for which acquire_execution_lock has failed in this drain
\* (under DrainSpec, whose history starts with the drain).
LockBusyIds == { t \in DOMAIN deferCount : deferCount[t] > 0 }

\* C16: during a drain, when acquire_execution_lock fails for a claimed
\* task, the task is not executed in that drain, its status is set back
\* to pending, and it is re-enqueued only after the drain loop has emptied
\* the queue; when the drain returns the queue contains exactly the
\* deferred tasks, in their original relative order (the queue the drain
\* starts with is in ascending ts order, so: in ascending order).
C16_DeferredWhileDraining ==
  pc \in DrainPcs =>
    \A t \in LockBusyIds :
      /\ tasks[t].status = PENDING
      /\ t \notin QueuedIds
      /\ t \notin Executing
      /\ t \notin InFlightIds
      /\ worker[t] = "none"
      /\ execCount[t] = 0
      /\ deferCount[t] = 1

C16_DeferredAtReturn ==
  DrainReturns =>
    /\ queue.items = <<>>
    /\ QueuedIds' = LockBusyIds
    /\ Len(queue'.items) = Cardinality(LockBusyIds)
    /\ queue'.task_ids = LockBusyIds
    /\ \A i \in 1..Len(queue'.items) : \A j \in 1..Len(queue'.items) :
         i < j => queue'.items[i].task_id < queue'.items[j].task_id
    /\ \A t \in LockBusyIds : tasks'[t].status = PENDING /\ execCount'[t] = 0

C16_LockBusyIsDeferred ==
  []C16_DeferredWhileDraining /\ [][C16_DeferredAtReturn]_vars

\* A drain has returned with two deferred tasks in the queue, the other
\* task of the batch having been run.
C16_Witness ==
  /\ pc = "listen"
  /\ Len(queue.items) = 2
  /\ Cardinality(LockBusyIds) = 2
  /\ \E t \in DrainIds : execCount[t] = 1 /\ tasks[t].status \in {SUCCEEDED, FAILED}

\* ---------------------------------------------------------------------
\* C17: every execution lock acquired for a task during a drain is
\* released by the time the drain ends, whatever the outcome: executor
\* success, executor failure, executor exception, reporter exception,
\* status-update exception, or worker future exception; this holds for
\* every task dispatched in the drain, not only the one whose finish step
\* failed.  A drain has ended when it has returned to the main loop or an
\* exception has left it; the only lock rows then are those of tasks a
\* previous run left aborted.
DrainEnded == pc \in {"listen", "unwinding"}

C17_LocksReleasedAtDrainEnd ==
  DrainEnded =>
    \A row \in locks : tasks[row.task_id].status = ABORTED_ON_RESTART

\* ---------------------------------------------------------------------
\* The tasks this drain has claimed (under DrainSpec, whose history
\* starts with the drain; a task the previous run claimed is aborted).
ClaimedIds ==
  { t \in DOMAIN tasks : casTrue[t] > 0 /\ tasks[t].status # ABORTED_ON_RESTART }

LockOwners == { row.task_id : row \in locks }

C19_DrainDoesNotBlockOnUnfinishedFuture ==
  (pc = "await" /\ in_flight # <<>>) =>
    worker[Head(in_flight).task_id] \notin {"submitted", "running"}

\* ---------------------------------------------------------------------
\* The drain runs in pool mode and a submit has raised in it.
Demoted == pc \in DrainPcs /\ cfg.worker_processes > 1 /\ ~drain_pool

\* The step on which process_pool.submit raises.
SubmitRaises == pc = "dispatch" /\ drain_pool /\ ~drain_pool'

\* C20: if submitting a task to the worker pool raises, that task is
\* executed inline in the same drain and finished (terminal status
\* stored, exactly one report, lock released), every task dequeued later
\* in the same drain is also executed inline, and tasks already submitted
\* earlier in the drain are still awaited and finished.  The raise leaves
\* the task claimed, with its lock, at the dispatch with no pool; from
\* then on the drain submits nothing, in_flight only shrinks, and when
\* the drain returns every task it claimed and did not defer, submitted
\* or inline, has been run once, has a terminal status, one report and
\* no lock.
C20_SubmitRaisesStep ==
  SubmitRaises =>
    /\ pc' = "dispatch"
    /\ cur' = cur
    /\ in_flight' = in_flight
    /\ locks' = locks
    /\ tasks'[cur[1].task_id].status = RUNNING

C20_DemotedStep ==
  Demoted =>
    /\ pc' \in DrainPcs => ~drain_pool'
    /\ \A t \in DrainIds : worker'[t] = "submitted" => worker[t] = "submitted"
    /\ Len(in_flight') <= Len(in_flight)
    /\ DrainReturns =>
         /\ in_flight = <<>>
         /\ \A t \in ClaimedIds \ LockBusyIds :
              /\ tasks'[t].status \in {SUCCEEDED, FAILED}
              /\ Len(reports'[t]) = 1
              /\ reports'[t][1].status = tasks'[t].status
              /\ execCount'[t] = 1
              /\ t \notin LockOwners'

C20_SubmitFailureFallsBackInline ==
  [][C20_SubmitRaisesStep /\ C20_DemotedStep]_vars

\* A drain of the batch 1, 2, 3, 7 in pool mode has returned: task 1 was
\* with the pool (task 2 found its lock busy), the submit of task 3
\* raised (task 7, which has the lock key of task 3, was not deferred),
\* and tasks 1, 3 and 7 are finished.
C20_Witness ==
  /\ pc = "listen"
  /\ cfg.worker_processes > 1
  /\ DOMAIN tasks = {1, 2, 3, 7}
  /\ LockBusyIds = {2}
  /\ locks = {}
  /\ \A t \in {1, 3, 7} :
       tasks[t].status \in {SUCCEEDED, FAILED} /\ Len(reports[t]) = 1 /\ execCount[t] = 1

\* ---------------------------------------------------------------------
\* C21: a reporter failure never changes a task's outcome: when
\* reporter.report raises during finish-task, rejection handling,
\* attachment failure or approval-post failure, the task's stored status
\* is the one written before the report attempt, the exception does not
\* propagate, and the lock of the task is still released.
\* Every report attempt that raised is for the status the task has; the
\* handlers give the same store, queue and return value whether the
\* report raises or not; the finish step goes on to the release of the
\* lock whether the report raised or not, and the drain leaves the
\* release position only with the lock of the task released.
C21_FailedReportKeepsStatus ==
  \A t \in DOMAIN tasks :
    \A i \in 1..Len(reports[t]) :
      ~reports[t][i].posted => tasks[t].status = reports[t][i].status

WithoutReports(st) == [st EXCEPT !.reports = <<>>]

C21_HandlersIgnoreReportFailure ==
  /\ \A t \in Tasks :
       \A download \in {"ok", "fail"}, post \in PostOutcomes :
         WithoutReports(process_command_message(cfg, HandlerState, MessageOf(t), download,
                                                post, FALSE))
           = WithoutReports(process_command_message(cfg, HandlerState, MessageOf(t),
                                                    download, post, TRUE))
  /\ \A r \in SeqRange(incoming_reactions) :
       WithoutReports(process_reaction_event(HandlerState, r, FALSE))
         = WithoutReports(process_reaction_event(HandlerState, r, TRUE))

C21_FinishStep ==
  /\ (pc \in {"finish_inline", "finish_await"} /\ reports' # reports) =>
       /\ pc' = (IF pc = "finish_inline" THEN "release_inline" ELSE "release_await")
       /\ cur' = cur
       /\ tasks'[cur[1].task_id].status = result
       /\ locks' = locks
  /\ (pc \in {"release_inline", "release_await"} /\ pc' \notin {pc, "down"}) =>
       /\ pc' = (IF pc = "release_inline" THEN "drain" ELSE "await")
       /\ cur[1].task_id \notin LockOwners'

C21_ReporterFailureChangesNothing ==
  /\ [](C21_FailedReportKeepsStatus /\ C21_HandlersIgnoreReportFailure)
  /\ [][C21_FinishStep]_vars

\* The report of a finished task raised: the drain has released the lock
\* of the task and gone on, and the task has the status of its result.
C21_Witness ==
  \E t \in Tasks :
    /\ pc = "listen"
    /\ t \in DOMAIN tasks
    /\ reports[t] = << [status |-> SUCCEEDED, posted |-> FALSE] >>
    /\ tasks[t].status = SUCCEEDED
    /\ execCount[t] = 1
    /\ t \notin LockOwners

\* ---------------------------------------------------------------------
\* The tasks stored without image paths although their message carries
\* images: those whose materialization failed.
ImageFailedIds ==
  { t \in DOMAIN tasks : MessageOf(t).files > 0 /\ tasks[t].payload.image_paths = 0 }

\* C22: if materializing the image attachments of a decided task fails
\* (download error, or an image over 20 MiB), the task is stored with
\* status failed, exactly one failure report is posted, the task is never
\* enqueued and never executed, and intake returns 0.
C22_FailedIntakeResult ==
  \A t \in Tasks \ processed :
    (MessageOf(t).files > 0 /\ MessageOf(t).triggered /\ t \notin DOMAIN tasks) =>
      \A post \in PostOutcomes, report_ok \in BOOLEAN :
        LET out == process_command_message(cfg, HandlerState, MessageOf(t), "fail", post,
                                           report_ok)
        IN /\ out.ret = 0
           /\ DOMAIN out.tasks = DOMAIN tasks \cup {t}
           /\ out.tasks[t].status = FAILED
           /\ \A u \in DOMAIN tasks : out.tasks[u] = tasks[u]
           /\ out.reports[t] = Append(reports[t], [status |-> FAILED, posted |-> report_ok])
           /\ \A u \in Tasks \ {t} : out.reports[u] = reports[u]
           /\ out.queue = queue
           /\ out.approvals = approvals
           /\ out.plans = plans

ApprovalRequestFailedIds ==
  { t \in DOMAIN tasks :
      /\ cfg.approval_mode = "reaction"
      /\ NeedsApproval(t)
      /\ t \notin ImageFailedIds
      /\ t \notin DOMAIN approvals
      /\ tasks[t].status = FAILED }

\* C23: if posting the plan message, or recording the approval, fails while
\* the approval is requested, the task ends failed, one failure report is
\* attempted, no pending approval row is left for the task, the task is
\* never enqueued, and no later reaction makes it run.
C23_FailedRequestResult ==
  \A t \in Tasks \ processed :
    (cfg.approval_mode = "reaction" /\ NeedsApproval(t) /\ t \notin DOMAIN tasks) =>
      \A post \in {"fail", "record_fail"}, report_ok \in BOOLEAN :
        LET out == process_command_message(cfg, HandlerState, MessageOf(t), "ok", post,
                                           report_ok)
        IN /\ out.ret = 0
           /\ DOMAIN out.tasks = DOMAIN tasks \cup {t}
           /\ out.tasks[t].status = FAILED
           /\ out.reports[t] = Append(reports[t], [status |-> FAILED, posted |-> report_ok])
           /\ out.approvals = approvals
           /\ t \notin DOMAIN out.approvals
           /\ out.queue = queue

C23_NoReactionRevives ==
  \A t \in ApprovalRequestFailedIds :
    \A reaction \in SlackReactions, report_ok \in BOOLEAN :
      LET out == process_reaction_event(HandlerState, reaction, report_ok)
      IN /\ out.tasks[t] = tasks[t]
         /\ out.reports[t] = reports[t]
         /\ t \notin DOMAIN out.approvals
         /\ t \notin { out.queue.items[i].task_id : i \in 1..Len(out.queue.items) }

C23_FailedRequestState ==
  \A t \in ApprovalRequestFailedIds :
    /\ t \notin QueuedIds
    /\ t \notin queue.task_ids
    /\ casTrue[t] = 0
    /\ execCount[t] = 0
    /\ worker[t] = "none"
    /\ resolveTrue[t] = 0
    /\ Len(reports[t]) <= 1
    /\ \A i \in 1..Len(reports[t]) : reports[t][i].status = FAILED

C23_FailedRequestStep ==
  \A t \in ApprovalRequestFailedIds : t \in ApprovalRequestFailedIds'

MaxQueueIds == 3

MaxQueueOps == 5

QueueTasks == [task_id : 1..MaxQueueIds, command_text : {"x", "y"}]

\* run() is not started while a component is driven on its own.
ProgramIdle ==
  /\ cfg = [approval_mode |-> "none", listener_mode |-> "poll", worker_processes |-> 1]
  /\ ProgramDown

\* A component is driven on its own from its state after construction.
UnitInit ==
  /\ ProgramIdle
  /\ UnitIdle

QueueEnqueue ==
  /\ queue_ops < MaxQueueOps
  /\ \E task \in QueueTasks :
       LET r == enqueue(task_queue, task) IN
       /\ task_queue' = r.queue
       /\ enqueue_log' = IF r.ok THEN Append(enqueue_log, task) ELSE enqueue_log
       /\ queue_ret' = [op |-> "enqueue", ok |-> r.ok, task |-> <<task>>]
  /\ queue_ops' = queue_ops + 1
  /\ UNCHANGED <<program_vars, late_vars, socket_vars, poll_vars, exec_vars, dequeue_log>>

QueueDequeue ==
  /\ queue_ops < MaxQueueOps
  /\ LET r == dequeue(task_queue) IN
       /\ task_queue' = r.queue
       /\ dequeue_log' = IF r.some THEN Append(dequeue_log, r.task) ELSE dequeue_log
       /\ queue_ret' = [op |-> "dequeue", ok |-> r.some,
                        task |-> IF r.some THEN <<r.task>> ELSE <<>>]
  /\ queue_ops' = queue_ops + 1
  /\ UNCHANGED <<program_vars, late_vars, socket_vars, poll_vars, exec_vars, enqueue_log>>

QueueNext ==
  \/ QueueEnqueue
  \/ QueueDequeue

QueueSpec == UnitInit /\ [][QueueNext]_vars

ItemIds(q) == { q.items[i].task_id : i \in 1..Len(q.items) }

\* C24: the TaskQueue is first-in first-out: dequeue returns the tasks in
\* the order in which their enqueues succeeded, and returns nothing exactly
\* when the queue is empty.
C24_LogsAgree ==
  enqueue_log = dequeue_log \o task_queue.items

C24_DequeueStep ==
  queue_ret'.op = "dequeue" =>
    /\ queue_ret'.ok <=> task_queue.items # <<>>
    /\ queue_ret'.ok =>
         /\ queue_ret'.task = <<enqueue_log[Len(dequeue_log) + 1]>>
         /\ dequeue_log' = Append(dequeue_log, enqueue_log[Len(dequeue_log) + 1])
    /\ ~queue_ret'.ok => queue_ret'.task = <<>> /\ task_queue' = task_queue

C24_QueueIsFifo ==
  /\ []C24_LogsAgree
  /\ [][C24_DequeueStep]_vars

\* Two tasks were enqueued and came back in that order; the third dequeue
\* returned nothing.
C24_Witness ==
  /\ Len(enqueue_log) = 2
  /\ enqueue_log[1].task_id # enqueue_log[2].task_id
  /\ dequeue_log = enqueue_log
  /\ queue_ret = [op |-> "dequeue", ok |-> FALSE, task |-> <<>>]

\* C25: the queue never holds two entries with the same task_id and its id
\* set is the set of the ids of its entries; enqueue returns false, and
\* leaves the queue unchanged, exactly when the task_id is queued; the same
\* id can be enqueued again once it has been dequeued.
C25_NoDuplicateIds ==
  /\ \A i \in 1..Len(task_queue.items) : \A j \in 1..Len(task_queue.items) :
       task_queue.items[i].task_id = task_queue.items[j].task_id => i = j
  /\ task_queue.task_ids = ItemIds(task_queue)

C25_EnqueueStep ==
  queue_ret'.op = "enqueue" =>
    /\ ~queue_ret'.ok <=> queue_ret'.task[1].task_id \in ItemIds(task_queue)
    /\ ~queue_ret'.ok => task_queue' = task_queue
    /\ queue_ret'.ok => task_queue'.items = Append(task_queue.items, queue_ret'.task[1])

C25_EnqueueAfterDequeue ==
  \A task \in QueueTasks :
    (task.task_id \in ItemIds(task_queue)) =>
      enqueue(dequeue(task_queue).queue, task).ok = (Head(task_queue.items).task_id = task.task_id)

C25_QueueDedupesById ==
  /\ [](C25_NoDuplicateIds /\ C25_EnqueueAfterDequeue)
  /\ [][C25_EnqueueStep]_vars

\* Task 1 was enqueued, a second enqueue of the id with another command
\* was refused, the task was dequeued and its id was then accepted again.
C25_Witness ==
  /\ queue_ops = 4
  /\ enqueue_log = << [task_id |-> 1, command_text |-> "x"], [task_id |-> 1, command_text |-> "y"] >>
  /\ dequeue_log = << [task_id |-> 1, command_text |-> "x"] >>
  /\ queue_ret = [op |-> "enqueue", ok |-> TRUE, task |-> << [task_id |-> 1, command_text |-> "y"] >>]

\* ------------------------------------- SlackSocketModeListener on its own
\* One listener driven by receive calls; each call meets any outcome of
\* apps.connections.open (when it opens), of recv and of the ack's send.
MaxSocketCalls == 3

EnvelopeIds == {<<>>, <<"">>, <<"E1">>, <<"E2">>}

\* What recv can do.  An envelope has a type, and a payload that is absent,
\* not an object, an object without event, or carries an event of some type
\* on some channel; well_formed: the event has the ts (and, for a reaction,
\* the item of type message and the reaction name) the parser asks for.
RecvOutcomes ==
  { [NoFrame EXCEPT !.kind = k] : k \in {"timeout", "error", "blank", "not_json", "not_object"} }
  \cup { [kind |-> "envelope", envelope_id |-> id, type |-> ty, payload |-> pl,
          event |-> "", channel |-> "", well_formed |-> FALSE] :
           id \in EnvelopeIds, ty \in {"disconnect", "hello", "events_api"},
           pl \in {"absent", "not_object", "no_event"} }
  \cup { [kind |-> "envelope", envelope_id |-> id, type |-> ty, payload |-> "event",
          event |-> ev, channel |-> ch, well_formed |-> wf] :
           id \in EnvelopeIds, ty \in {"disconnect", "events_api"},
           ev \in {"message", "reaction_added", "app_mention"},
           ch \in {COMMAND_CHANNEL, "C999"}, wf \in BOOLEAN }

OpenOutcomes == {"ok", "open_raises", "no_url", "factory_raises"}

SocketReceive ==
  /\ socket_calls < MaxSocketCalls
  /\ \E open \in IF socket_listener.socket = 0 THEN OpenOutcomes ELSE {"ok"} :
     \E rx \in RecvOutcomes :
     \E send_ok \in IF envelope_id_of(rx) # "" THEN BOOLEAN ELSE {TRUE} :
       LET out == receive(socket_listener, open, rx, send_ok) IN
       /\ socket_listener' = out.listener
       /\ socket_frame' = out.frame
       /\ socket_trace' = out.trace
       /\ socket_ret' = out.ret
  /\ socket_calls' = socket_calls + 1
  /\ UNCHANGED <<program_vars, late_vars, queue_vars, poll_vars, exec_vars>>

SocketNext == SocketReceive

SocketSpec == UnitInit /\ [][SocketNext]_vars

\* The positions of the acks in the trace of the last receive call.
AckPositions == { i \in 1..Len(socket_trace) : socket_trace[i].e = "send" }

\* The last receive call got a frame that decodes to an envelope with a
\* non-empty envelope_id.
FrameHasId == IsEnvelope(socket_frame) /\ envelope_id_of(socket_frame) # ""

\* C26: every received frame that decodes to an envelope with a non-empty
\* envelope_id is acknowledged exactly once, with that id, after the recv
\* and before receive returns (or raises), whatever its type, event type
\* and channel; a frame without an id is never acknowledged.
C26_AckOncePerEnvelope ==
  /\ FrameHasId =>
       \E i \in 1..Len(socket_trace) :
         /\ AckPositions = {i}
         /\ socket_trace[i] = Call("send", envelope_id_of(socket_frame))
         /\ i > 1 /\ socket_trace[i - 1].e = "recv"
         /\ \A j \in 1..i : socket_trace[j].e \notin {"return", "raise"}
         /\ socket_trace[Len(socket_trace)].e \in {"return", "raise"}
  /\ ~FrameHasId => AckPositions = {}

\* A disconnect frame with the id E1 arrived on a connection that was
\* already open: it was acknowledged, then the connection was closed.
C26_Witness ==
  /\ socket_frame.type = "disconnect"
  /\ socket_frame.envelope_id = <<"E1">>
  /\ socket_trace = <<Call("recv", ""), Call("send", "E1"), Call("close", ""), Call("return", "")>>
  /\ socket_ret = EmptyBatch

\* C27: the listener holds at most one connection.  A receive call opens
\* one (a single apps.connections.open) exactly when none is held; a recv
\* timeout returns an empty batch and keeps the connection; a disconnect
\* frame closes it and returns an empty batch; a recv error other than a
\* timeout, or a failed ack, closes it and raises; the first receive after
\* a close opens a new connection.
C27_AtMostOneConnection ==
  /\ socket_listener.socket \in 0..socket_listener.made
  /\ socket_listener.socket \notin socket_listener.closed
  /\ (1..socket_listener.made) \ socket_listener.closed \subseteq {socket_listener.socket}
  /\ socket_listener.made <= socket_listener.opens

C27_ReceiveLifecycle ==
  \A open \in OpenOutcomes, rx \in RecvOutcomes, send_ok \in BOOLEAN :
    LET l == socket_listener
        out == receive(l, open, rx, send_ok)
        l2 == out.listener
        conn == IF l.socket # 0 THEN l.socket ELSE l.made + 1
        opened == l.socket # 0 \/ open = "ok"
        ack_failed == IsEnvelope(rx) /\ envelope_id_of(rx) # "" /\ ~send_ok
    IN
    /\ l2.opens = l.opens + (IF l.socket = 0 THEN 1 ELSE 0)
    /\ l2.made = l.made + (IF l.socket = 0 /\ open = "ok" THEN 1 ELSE 0)
    /\ ~opened => l2.socket = 0 /\ l2.closed = l.closed /\ out.ret = Raised
    /\ (opened /\ rx.kind = "timeout") =>
         l2.socket = conn /\ l2.closed = l.closed /\ out.ret = EmptyBatch
    /\ (opened /\ (rx.kind = "error" \/ ack_failed)) =>
         l2.socket = 0 /\ l2.closed = l.closed \cup {conn} /\ out.ret = Raised
    /\ (opened /\ IsEnvelope(rx) /\ rx.type = "disconnect" /\ ~ack_failed) =>
         l2.socket = 0 /\ l2.closed = l.closed \cup {conn} /\ out.ret = EmptyBatch
    /\ (opened /\ rx.kind \notin {"timeout", "error"} /\ ~ack_failed
          /\ ~(IsEnvelope(rx) /\ rx.type = "disconnect")) =>
         l2.socket = conn /\ l2.closed = l.closed /\ ~out.ret.raised

C27_SocketLifecycle ==
  /\ C27_AtMostOneConnection
  /\ C27_ReceiveLifecycle

\* The first connection was closed by a disconnect frame, the next receive
\* opened the second one and timed out, and the third timed out on it
\* without opening.
C27_Witness ==
  /\ socket_calls = 3
  /\ socket_listener = [socket |-> 2, opens |-> 2, made |-> 2, closed |-> {1}]
  /\ socket_frame.kind = "timeout"
  /\ socket_trace = <<Call("recv", ""), Call("return", "")>>
  /\ socket_ret = EmptyBatch

\* --------------------------------------- SlackChannelListener on its own
\* One poll call, page by page; the server answers each history call with
\* any page: up to MaxPageLen raw entries, has_more, and a next_cursor that
\* may be empty.
MaxPages == 3

MaxPageLen == 1

RawMessages == { [ts |-> t] : t \in {"9.5", "10.5", ""} }

Pages == UNION { [1..n -> RawMessages] : n \in 0..MaxPageLen }

LastTsValues == {<<>>, <<"9.5">>}

\* poll(last_ts=...) is called on a listener built with max_pages.
PollEnter ==
  /\ poll_pc = "idle"
  /\ \E last_ts \in LastTsValues, max_pages \in 1..MaxPages :
       poll_args' = [last_ts |-> last_ts, max_pages |-> max_pages]
  /\ poll_pc' = "loop"
  /\ UNCHANGED <<program_vars, late_vars, queue_vars, socket_vars, exec_vars, poll_cursor, poll_fetched,
                 poll_calls, poll_replies, poll_result>>

\* One turn of the while loop: a history call and what follows its reply.
PollPage ==
  /\ poll_pc = "loop"
  /\ Len(poll_calls) < poll_args.max_pages
  /\ \E page \in Pages, has_more \in BOOLEAN, next_cursor \in {"", "c1", "c2"} :
       /\ poll_calls' = Append(poll_calls, [oldest |-> poll_args.last_ts, cursor |-> poll_cursor])
       /\ poll_replies' = Append(poll_replies, [has_more |-> has_more, next_cursor |-> next_cursor])
       /\ poll_fetched' = poll_fetched \o page
       /\ IF ~has_more THEN poll_pc' = "normalize" /\ poll_cursor' = poll_cursor
          ELSE /\ poll_cursor' = next_cursor
               /\ poll_pc' = IF next_cursor = "" THEN "normalize" ELSE "loop"
  /\ UNCHANGED <<program_vars, late_vars, queue_vars, socket_vars, exec_vars, poll_args, poll_result>>

\* The loop is left (break, or pages = max_pages) and the result is built.
PollReturn ==
  /\ \/ poll_pc = "normalize"
     \/ poll_pc = "loop" /\ Len(poll_calls) >= poll_args.max_pages
  /\ poll_result' = PollResultOf(poll_fetched)
  /\ poll_pc' = "done"
  /\ UNCHANGED <<program_vars, late_vars, queue_vars, socket_vars, exec_vars, poll_args, poll_cursor, poll_fetched,
                 poll_calls, poll_replies>>

PollNext ==
  \/ PollEnter
  \/ PollPage
  \/ PollReturn

PollSpec == UnitInit /\ [][PollNext]_vars

\* C28: the messages of a poll result are sorted by non-decreasing numeric
\* ts and newest_ts is the ts of the last one (none without messages); a
\* poll makes at most max_pages history calls, each with oldest = last_ts,
\* and asks for a further page only after a reply with has_more and a
\* non-empty next_cursor, passing that cursor.
C28_Calls ==
  /\ Len(poll_calls) <= poll_args.max_pages
  /\ Len(poll_replies) = Len(poll_calls)
  /\ \A i \in 1..Len(poll_calls) :
       /\ poll_calls[i].oldest = poll_args.last_ts
       /\ i = 1 => poll_calls[i].cursor = ""
       /\ i > 1 => /\ poll_replies[i - 1].has_more
                   /\ poll_replies[i - 1].next_cursor # ""
                   /\ poll_calls[i].cursor = poll_replies[i - 1].next_cursor

C28_Result ==
  poll_pc = "done" =>
    LET ms == poll_result.messages IN
    /\ Len(poll_calls) >= 1
    /\ \A i \in 1..Len(ms) : ms[i].ts # ""
    /\ \A i \in 1..(Len(ms) - 1) : ts_as_float(ms[i].ts) <= ts_as_float(ms[i + 1].ts)
    /\ Len(ms) = Cardinality({ i \in 1..Len(poll_fetched) : poll_fetched[i].ts # "" })
    /\ \A t \in {"9.5", "10.5"} :
         Cardinality({ i \in 1..Len(ms) : ms[i].ts = t })
           = Cardinality({ i \in 1..Len(poll_fetched) : poll_fetched[i].ts = t })
    /\ poll_result.newest_ts = IF ms = <<>> THEN <<>> ELSE <<ms[Len(ms)].ts>>

C28_PollContract ==
  /\ C28_Calls
  /\ C28_Result

\* Three pages were fetched with the cursors the server gave; the server
\* sent 10.5 before 9.5 and an entry without ts; the result is 9.5, 10.5.
C28_Witness ==
  /\ poll_pc = "done"
  /\ poll_args = [last_ts |-> <<"9.5">>, max_pages |-> 3]
  /\ poll_calls = << [oldest |-> <<"9.5">>, cursor |-> ""], [oldest |-> <<"9.5">>, cursor |-> "c1"],
                     [oldest |-> <<"9.5">>, cursor |-> "c2"] >>
  /\ poll_replies[3].has_more
  /\ poll_fetched = << [ts |-> "10.5"], [ts |-> ""], [ts |-> "9.5"] >>
  /\ poll_result.messages = << [channel_id |-> COMMAND_CHANNEL, ts |-> "9.5"],
                               [channel_id |-> COMMAND_CHANNEL, ts |-> "10.5"] >>
  /\ poll_result.newest_ts = <<"10.5">>

\* ------------------------------------------------ TaskExecutor on its own
\* Agent runs, one after another, on two threads of one channel; each run
\* meets any outcome of its subprocess.
MaxRuns == 3

\* Lengths of the stripped response: none; short; such that a codex entry
\* with a prompt of 3 characters has 11,998 or 12,000 characters; longer
\* than the cap.
ResponseLens == {0, 12, 11967, 11969, 13000}

ProcOutcomes ==
  [ outcome : {"exit0", "exit1", "timeout", "oserror"}, thread_id : {0, 1, 2},
    prompt_len : {3}, response_len : ResponseLens ]

ExecRun ==
  /\ exec_runs < MaxRuns
  /\ \E agent \in Agents, thread \in Threads, proc \in ProcOutcomes :
       /\ agent # "codex" => proc.thread_id = 0
       /\ LET out == execute(exec_store, agent, thread, proc, exec_runs + 1) IN
          /\ exec_store' = out.store
          /\ exec_last' = [ thread |-> thread, agent |-> agent, outcome |-> proc.outcome,
                            thread_id |-> proc.thread_id, prompt_len |-> proc.prompt_len,
                            response_len |-> proc.response_len, cmd |-> out.cmd,
                            status |-> out.status ]
  /\ exec_runs' = exec_runs + 1
  /\ UNCHANGED <<program_vars, late_vars, queue_vars, socket_vars, poll_vars>>

ExecNext == ExecRun

ExecSpec == UnitInit /\ [][ExecNext]_vars

\* C29: on a thread, a codex run with no stored session is invoked as
\* codex exec; when it succeeds with a thread.started event, that thread_id
\* is stored as the session; every later codex run on the thread is invoked
\* as codex exec resume with the stored id; a failed run (non-zero exit,
\* timeout) changes neither the stored session nor the thread context.
C29_CodexRunStep ==
  (exec_runs' = exec_runs + 1 /\ exec_last'.agent = "codex") =>
    LET th == exec_last'.thread
        stored == exec_store.sessions[th]["codex"]
        ok == exec_last'.outcome = "exit0"
    IN
    /\ stored = 0 => exec_last'.cmd = [agent |-> "codex", form |-> "exec", session_id |-> 0]
    /\ stored # 0 =>
         exec_last'.cmd = [agent |-> "codex", form |-> "exec resume", session_id |-> stored]
    /\ (ok /\ exec_last'.thread_id # 0) =>
         exec_store'.sessions[th]["codex"] = exec_last'.thread_id
    /\ (ok /\ exec_last'.thread_id = 0) => exec_store'.sessions[th]["codex"] = stored
    /\ ok <=> exec_last'.status = SUCCEEDED
    /\ ~ok => exec_store' = exec_store

C29_SessionStep ==
  \A th \in Threads :
    /\ exec_store.sessions[th]["codex"] # 0 => exec_store'.sessions[th]["codex"] # 0
    /\ (exec_last'.thread # th \/ exec_last'.agent # "codex") =>
         exec_store'.sessions[th]["codex"] = exec_store.sessions[th]["codex"]

C29_CodexSessionPerThread ==
  [][C29_CodexRunStep /\ C29_SessionStep]_vars

\* On thread 1.1 a codex run stored the session 1; the next codex run on the
\* thread was invoked as exec resume with it, announced another thread id
\* and failed: the session and the context are as the first run left them.
C29_Witness ==
  /\ exec_runs = 2
  /\ exec_last.thread = "1.1"
  /\ exec_last.cmd = [agent |-> "codex", form |-> "exec resume", session_id |-> 1]
  /\ exec_last.thread_id = 2
  /\ exec_last.outcome = "exit1"
  /\ exec_last.response_len > 0
  /\ exec_store.sessions["1.1"]["codex"] = 1
  /\ exec_store.sessions["2.2"]["codex"] = 0
  /\ Len(exec_store.context["1.1"]) = 1

\* The entry the last run appends when it succeeds with a response.
LastEntry(run_no, last) == EntryOf(run_no, last.agent, last.prompt_len, last.response_len)

Appends(last) == last.outcome = "exit0" /\ last.response_len > 0

\* C30: the stored thread context never exceeds 12,000 characters; a
\* successful run with a non-empty response leaves the last 12,000
\* characters of the previous context, a blank line and the new entry, or
\* of the new entry alone when there was no previous context; a failed run
\* or an empty response leaves the context as it was.
C30_Bounded ==
  \A th \in Threads : TextLen(exec_store.context[th]) <= THREAD_CONTEXT_MAX_CHARS

C30_RunStep ==
  exec_runs' = exec_runs + 1 =>
    LET th == exec_last'.thread
        previous == exec_store.context[th]
        entry == LastEntry(exec_runs', exec_last')
        whole == IF previous = <<>> THEN entry ELSE previous \o <<BlankLine>> \o entry
        new == exec_store'.context[th]
    IN
    /\ \A other \in Threads \ {th} : exec_store'.context[other] = exec_store.context[other]
    /\ ~Appends(exec_last') => new = previous
    /\ Appends(exec_last') =>
         /\ new = LastChars(whole, THREAD_CONTEXT_MAX_CHARS)
         /\ TextLen(new) = IF TextLen(whole) < THREAD_CONTEXT_MAX_CHARS
                             THEN TextLen(whole) ELSE THREAD_CONTEXT_MAX_CHARS
         /\ new[Len(new)].src = exec_runs'
         /\ new[Len(new)].to = TextLen(entry)
         /\ \A k \in 0..(Len(new) - 1) : new[Len(new) - k].to = whole[Len(whole) - k].to
         /\ \A k \in 0..(Len(new) - 2) : new[Len(new) - k] = whole[Len(whole) - k]

C30_ThreadContextIsBoundedLog ==
  /\ []C30_Bounded
  /\ [][C30_RunStep]_vars

\* The statement as worded: the blank line comes before the entry also
\* when there is no previous context.
C30_BlankLineAlways ==
  [][ (exec_runs' = exec_runs + 1 /\ Appends(exec_last')) =>
        exec_store'.context[exec_last'.thread]
          = LastChars(exec_store.context[exec_last'.thread] \o <<BlankLine>>
                        \o LastEntry(exec_runs', exec_last'),
                      THREAD_CONTEXT_MAX_CHARS) ]_vars

\* The context of thread 1.1 held one entry of 11,998 characters; a second
\* run appended a short one: the context is cut to its last 12,000
\* characters, which start inside the first entry.
C30_Witness ==
  /\ exec_runs = 2
  /\ exec_last.thread = "1.1"
  /\ exec_last.outcome = "exit0"
  /\ exec_last.response_len = 12
  /\ Len(exec_store.context["1.1"]) = 3
  /\ exec_store.context["1.1"][1].src = 1
  /\ exec_store.context["1.1"][1].from > 1
  /\ exec_store.context["1.1"][1].to = 11998
  /\ exec_store.context["1.1"][2] = BlankLine
  /\ TextLen(exec_store.context["1.1"]) = THREAD_CONTEXT_MAX_CHARS

\* ---------------------------- _append_thread_context during a drain
\* The tasks of two agent commands, "!do codex: fix" or "!do lock:a codex: fix":
\* message 1 opens a thread, message 2 is a reply in it or opens its own.
ContextIds == {1, 2}

ContextLockKeys == {"global", "lock:a"}

\* The thread_ts column of the thread whose root is message ts.
ThreadName(ts) == IF ts = 1 THEN "1.1" ELSE "2.2"

AgentMessage(t, key, th) ==
  [MessageOf(t) EXCEPT !.thread_ts = th, !.prefix = "codex", !.segments = << <<"fix">> >>,
                       !.lock_key = key, !.files = 0]

\* run() has taken in message 1, and message 2 with it if the same poll
\* returned both, and is about to drain the queue.
ContextInit ==
  \E key1 \in ContextLockKeys : \E batch \in {<<1>>, <<1, 2>>} :
   \E key2 \in ContextLockKeys : \E th2 \in {1, 2} :
    /\ cfg \in DrainConfigs
    /\ LET first == process_command_message(cfg, StateAfterRestart({}),
                                            AgentMessage(1, key1, 1), "ok", "ok", TRUE)
           st == IF Len(batch) = 1 THEN first
                 ELSE process_command_message(cfg, first, AgentMessage(2, key2, th2),
                                              "ok", "ok", TRUE)
       IN
       /\ processed = st.processed
       /\ tasks = st.tasks
       /\ approvals = st.approvals
       /\ queue = st.queue
       /\ reports = st.reports
       /\ plans = st.plans
       /\ resolveTrue = st.resolveTrue
       /\ enqueued = Len(st.queue.items)
    /\ last_message = <<batch[Len(batch)]>>
    /\ starts = 1
    /\ pc = "handle"
    /\ locks = {}
    /\ incoming_messages = <<>>
    /\ incoming_reactions = <<>>
    /\ last_reaction = <<>>
    /\ cur = <<>>
    /\ result = ""
    /\ deferred = <<>>
    /\ in_flight = <<>>
    /\ drain_pool = FALSE
    /\ pool_started = FALSE
    /\ worker = [t \in DrainIds |-> "none"]
    /\ execCount = [t \in DrainIds |-> 0]
    /\ casTrue = [t \in DrainIds |-> 0]
    /\ deferCount = [t \in DrainIds |-> 0]
    /\ UnitIdle

\* A later cycle of run(): the poll returns nothing new, or message 2, which
\* _process_command_message takes in.
ContextListen ==
  /\ pc = "listen"
  /\ \/ /\ enqueued' = 0
        /\ UNCHANGED <<store_vars, queue, reports, plans, resolveTrue, last_message>>
     \/ /\ 2 \notin processed
        /\ \E key2 \in ContextLockKeys : \E th2 \in {1, 2} :
             LET st == process_command_message(cfg, HandlerState, AgentMessage(2, key2, th2),
                                               "ok", "ok", TRUE)
             IN /\ ApplyHandlerState([st EXCEPT !.ret = st.ret - enqueued])
                /\ UNCHANGED locks
        /\ last_message' = <<2>>
  /\ pc' = "handle"
  /\ UNCHANGED <<cfg, starts, incoming_messages, incoming_reactions, last_reaction,
                 drain_vars, pool_started, worker, execCount, casTrue, deferCount>>
  /\ UNCHANGED unit_vars

ContextThread(t) == ThreadName(tasks[t].payload.thread_ts)

\* existing = store.get_thread_context(task.channel_id, task.thread_ts), in
\* the executor that is running task t (main process or pool worker).
AppendRead(t) ==
  /\ t \in Executing
  /\ IF t \in DOMAIN ctx_seen THEN ctx_seen[t].run # execCount[t] ELSE TRUE
  /\ ctx_seen' = [ u \in DOMAIN ctx_seen \cup {t} |->
                     IF u = t
                       THEN [run |-> execCount[t], text |-> ctx_store[ContextThread(t)],
                             written |-> FALSE]
                       ELSE ctx_seen[u] ]
  /\ UNCHANGED <<program_vars, early_vars, call_vars, ctx_store, ctx_written>>

\* store.upsert_thread_context(task.channel_id, task.thread_ts, merged), with
\* merged built from what this executor read.
AppendWrite(t) ==
  /\ t \in Executing
  /\ t \in DOMAIN ctx_seen
  /\ ctx_seen[t].run = execCount[t]
  /\ ~ctx_seen[t].written
  /\ LET th == ContextThread(t)
         as_read == [ctx_store EXCEPT ![th] = ctx_seen[t].text]
     IN ctx_store' = [ctx_store EXCEPT
                        ![th] = append_thread_context(as_read, th, "codex", 3, 12, t)[th]]
  /\ ctx_seen' = [ctx_seen EXCEPT ![t].written = TRUE]
  /\ ctx_written' = ctx_written \cup {t}
  /\ UNCHANGED <<program_vars, early_vars, call_vars>>

ContextNext ==
  \/ ContextListen
  \/ BeginDrain
  \/ DrainDequeue
  \/ DrainAcquire
  \/ DrainSubmit
  \/ ExecuteInline
  \/ ExecuteReturn
  \/ FinishTask
  \/ FinishTaskRaises
  \/ RunExits
  \/ ReleaseLock
  \/ AwaitFuture
  \/ RequeueDeferred
  \/ \E t \in ContextIds : WorkerStart(t)
  \/ \E t \in ContextIds : WorkerFinish(t)
  \/ \E t \in ContextIds : AppendRead(t)
  \/ \E t \in ContextIds : AppendWrite(t)

ContextSpec == ContextInit /\ [][ContextNext]_vars

HasEntry(text, t) == \E i \in 1..Len(text) : text[i].src = t

\* Task t stored its entry and the row of its thread no longer holds it
\* (the entries are far shorter than the cap: nothing is cut off).
LostEntry(t) == t \in ctx_written /\ ~HasEntry(ctx_store[ContextThread(t)], t)

\* C31, first half: two tasks with different lock keys on one thread ran
\* at the same time, both stored their entry, and the row holds only one.
C31_LostUpdate ==
  /\ 2 \in DOMAIN tasks
  /\ tasks[1].payload.lock_key # tasks[2].payload.lock_key
  /\ ContextThread(1) = ContextThread(2)
  /\ ctx_written = {1, 2}
  /\ \E t \in ContextIds : LostEntry(t)
  /\ \E t \in ContextIds : ~LostEntry(t)

\* C31: the append to the thread context is a read-modify-write that is
\* not atomic, so two tasks of one thread with different lock keys can
\* lose an entry; two tasks that share a lock_key never lose an entry
\* this way.
C31_SameLockKeyNeverLoses ==
  \A t \in DOMAIN tasks : \A u \in DOMAIN tasks \ {t} :
    tasks[t].payload.lock_key = tasks[u].payload.lock_key => ~LostEntry(t)


\* ------------------------------------------------------------ reporter.py
Ellipsis == <<".", ".", ".">>

\* Mutation: the ellipsis is added to the first max_len characters.
trim_no_room(text, max_len) ==
  IF Len(text) <= max_len THEN text
  ELSE IF max_len <= 3 THEN SubSeq(text, 1, max_len)
  ELSE SubSeq(text, 1, max_len) \o Ellipsis

\* A text is the sequence of its characters.
trim(text, max_len) ==
  IF Len(text) <= max_len THEN text
  ELSE IF max_len <= 3 THEN SubSeq(text, 1, max_len)
  ELSE SubSeq(text, 1, max_len - 3) \o Ellipsis

\* _trim called on its own, on the texts over "a" and "." of up to
\* MaxTextLen characters, with the limits a config can hold (positive).
MaxTextLen == 6

MaxTrimLimit == 6

RECURSIVE TextsOfLen(_)
TextsOfLen(n) ==
  IF n = 0 THEN {<<>>}
  ELSE { <<c>> \o t : c \in {"a", "."}, t \in TextsOfLen(n - 1) }

TrimTexts == UNION { TextsOfLen(n) : n \in 0..MaxTextLen }

TrimCall ==
  /\ \E text \in TrimTexts : \E max_len \in 1..MaxTrimLimit :
       /\ call_args' = [name |-> "_trim", text |-> text, max_len |-> max_len]
       /\ call_ret' = trim(text, max_len)
  /\ UNCHANGED <<program_vars, early_vars, context_vars>>

TrimNext == TrimCall

TrimSpec == UnitInit /\ [][TrimNext]_vars

EndsWithEllipsis(text) ==
  Len(text) >= 3 /\ SubSeq(text, Len(text) - 2, Len(text)) = Ellipsis

\* C32 as stated: for a text of length L and a cap C >= 4, the trimmed text
\* has at most C characters, it ends with "..." if and only if L > C, and
\* for L <= C it is the text unchanged.
C32_EllipsisIffLonger ==
  (call_args.name = "_trim" /\ call_args.max_len >= 4) =>
    /\ Len(call_ret) <= call_args.max_len
    /\ EndsWithEllipsis(call_ret) <=> Len(call_args.text) > call_args.max_len
    /\ Len(call_args.text) <= call_args.max_len => call_ret = call_args.text

\* C32 (amended): for a text of length L and a cap C >= 4, the trimmed text
\* has at most C characters; for L > C it is the first C - 3 characters of
\* the text followed by "..."; for L <= C it is the text unchanged, which
\* ends with "..." exactly when the text does.
C32_TrimContract ==
  (call_args.name = "_trim" /\ call_args.max_len >= 4) =>
    LET text == call_args.text
        C == call_args.max_len
    IN
    /\ Len(call_ret) <= C
    /\ Len(text) > C =>
         /\ Len(call_ret) = C
         /\ EndsWithEllipsis(call_ret)
         /\ \A i \in 1..(C - 3) : call_ret[i] = text[i]
    /\ Len(text) <= C => call_ret = text

\* A text of six characters was trimmed to five: two of them and "...".
C32_Witness ==
  /\ call_args.name = "_trim"
  /\ call_args.max_len = 5
  /\ call_args.text = <<"a", "a", "a", "a", "a", "a">>
  /\ call_ret = <<"a", "a", ".", ".", ".">>


\* ------------------------------------------- _extract_lock_key, decider.py
\* A command text is a sequence of atoms: the words "lock:", "sh:", "cd" and
\* "a", the separator ";", a space and a newline.  No atom is the beginning
\* of another, so two sequences spell the same text only if they are equal.
Atoms == {"lock:", "sh:", "cd", "a", ";", " ", "\n"}

Spaces == {" ", "\n"}

\* The first index from i on whose atom is not in class (Len + 1 if none).
RECURSIVE Span(_, _, _)
Span(text, i, class) ==
  IF i <= Len(text) /\ text[i] \in class THEN Span(text, i + 1, class) ELSE i

\* _LOCK_PREFIX_RE = ^lock:([^\s]+)\s+(.*)$ where . matches no newline.
lock_prefix_match(text) ==
  LET i == Span(text, 2, Atoms \ Spaces)
      j == Span(text, i, Spaces)
  IN IF /\ Len(text) >= 1
        /\ text[1] = "lock:"
        /\ i > 2
        /\ j > i
        /\ \A k \in j..Len(text) : text[k] # "\n"
       THEN [ok |-> TRUE, name |-> SubSeq(text, 2, i - 1), rest |-> SubSeq(text, j, Len(text))]
       ELSE [ok |-> FALSE]

\* _SHELL_CD_RE = ^\s*sh:\s*cd\s+([^\s;&]+)
shell_cd_match(text) ==
  LET s == Span(text, 1, Spaces)
      c == Span(text, s + 1, Spaces)
      w == Span(text, c + 1, Spaces)
      e == Span(text, w, Atoms \ (Spaces \cup {";"}))
  IN IF /\ s <= Len(text)
        /\ text[s] = "sh:"
        /\ c <= Len(text)
        /\ text[c] = "cd"
        /\ w > c + 1
        /\ e > w
       THEN [ok |-> TRUE, path |-> SubSeq(text, w, e - 1)]
       ELSE [ok |-> FALSE]

\* A lock key is spelled with the atoms "lock:", "path:" or "global" in front.
extract_lock_key(command_text) ==
  LET prefixed == lock_prefix_match(command_text)
      shell_cd == shell_cd_match(command_text)
  IN IF prefixed.ok
       THEN [lock_key |-> <<"lock:">> \o prefixed.name, command_text |-> prefixed.rest]
     ELSE IF shell_cd.ok
       THEN [lock_key |-> <<"path:">> \o shell_cd.path, command_text |-> command_text]
     ELSE [lock_key |-> <<"global">>, command_text |-> command_text]

\* _extract_lock_key called once on a command text as decide_message passes
\* it (stripped, not empty); OtherCommands are the commands its key is
\* compared with.
MaxAtoms == 6

CommandTexts ==
  { t \in UNION { [1..n -> Atoms] : n \in 1..MaxAtoms } :
      t[1] \notin Spaces /\ t[Len(t)] \notin Spaces }

OtherCommands ==
  { <<"lock:", "a", " ", "a">>, <<"lock:", "cd", " ", "a">>, <<"sh:", "cd", " ", "a">>,
    <<"sh:", "cd", " ", "cd">>, <<"a">> }

LockKeyCall ==
  /\ call_args = NoCall
  /\ \E text \in CommandTexts :
       /\ call_args' = [name |-> "_extract_lock_key", text |-> text]
       /\ call_ret' = extract_lock_key(text)
  /\ UNCHANGED <<program_vars, early_vars, context_vars>>

LockKeyNext == LockKeyCall

LockKeySpec == UnitInit /\ [][LockKeyNext]_vars

\* What the claim calls a leading lock:<name> <rest>: "lock:", a name that
\* runs up to the first whitespace, whitespace, and the rest of the text.
LeadingLock(text) ==
  LET i == Span(text, 2, Atoms \ Spaces)
      j == Span(text, i, Spaces)
  IN IF text[1] = "lock:" /\ i > 2 /\ j > i /\ j <= Len(text)
       THEN [ok |-> TRUE, name |-> SubSeq(text, 2, i - 1), rest |-> SubSeq(text, j, Len(text))]
       ELSE [ok |-> FALSE]

\* What the claim calls a command beginning sh:cd <path>.
BeginsShCd(text) ==
  IF /\ Len(text) >= 4
     /\ text[1] = "sh:"
     /\ text[Span(text, 2, Spaces)] = "cd"
  THEN LET w == Span(text, Span(text, 2, Spaces) + 1, Spaces)
           e == Span(text, w, Atoms \ (Spaces \cup {";"}))
       IN IF w > Span(text, 2, Spaces) + 1 /\ e > w
            THEN [ok |-> TRUE, path |-> SubSeq(text, w, e - 1)]
            ELSE [ok |-> FALSE]
  ELSE [ok |-> FALSE]

\* The lock key the claim gives a command.
ClaimedLockKey(text) ==
  IF LeadingLock(text).ok THEN <<"lock:">> \o LeadingLock(text).name
  ELSE IF BeginsShCd(text).ok THEN <<"path:">> \o BeginsShCd(text).path
  ELSE <<"global">>

SameLockSource(a, b) ==
  \/ LeadingLock(a).ok /\ LeadingLock(b).ok /\ LeadingLock(a).name = LeadingLock(b).name
  \/ /\ ~LeadingLock(a).ok /\ ~LeadingLock(b).ok
     /\ BeginsShCd(a).ok /\ BeginsShCd(b).ok /\ BeginsShCd(a).path = BeginsShCd(b).path
  \/ /\ ~LeadingLock(a).ok /\ ~LeadingLock(b).ok
     /\ ~BeginsShCd(a).ok /\ ~BeginsShCd(b).ok

\* C33: a leading lock:<name> <rest> gives lock key "lock:<name>" and the
\* command <rest>; otherwise a command beginning sh:cd <path> gives
\* "path:<path>" and the command unchanged; otherwise the key is "global";
\* two commands get the same key exactly when they name the same lock or
\* the same cd path or both fall through to global.
C33_LockKeyRule ==
  call_args.name = "_extract_lock_key" =>
    LET text == call_args.text IN
    /\ call_ret.lock_key = ClaimedLockKey(text)
    /\ call_ret.command_text = IF LeadingLock(text).ok THEN LeadingLock(text).rest ELSE text
    /\ \A other \in OtherCommands :
         call_ret.lock_key = extract_lock_key(other).lock_key <=> SameLockSource(text, other)

\* The rule holds for the commands whose text after the lock name is one line.
C33_SingleLineRule ==
  LET lead == LeadingLock(call_args.text) IN
  ( /\ call_args.name = "_extract_lock_key"
    /\ lead.ok
    /\ \A k \in 1..Len(lead.rest) : lead.rest[k] # "\n" ) =>
      /\ call_ret.lock_key = <<"lock:">> \o lead.name
      /\ call_ret.command_text = lead.rest

\* ------------------------------------------- decide_message on its own
\* The TaskSpec decide_message constructs (decider.py 115-123), with the
\* fields models.py declares: no thread_ts and no image_paths among them.
task_spec(message) ==
  [ task_id |-> build_task_id(message),
    channel_id |-> COMMAND_CHANNEL,
    message_ts |-> message.ts,
    trigger_user |-> message.user,
    trigger_text |-> MessageShape(message.ts),
    command_text |-> [prefix |-> message.prefix, segments |-> message.segments],
    lock_key |-> message.lock_key ]

\* Decision(should_run, reason, task), the task as <<>> for None.
decision_of(message) ==
  IF decide_message(message).should_run
    THEN [should_run |-> TRUE, task |-> <<task_spec(message)>>]
    ELSE [should_run |-> FALSE, task |-> <<>>]

\* obj.name: <<value>>, or <<>> for the AttributeError of a missing attribute.
getattr(obj, name) == IF name \in DOMAIN obj THEN <<obj[name]>> ELSE <<>>

\* The messages handed to decide_message: message ts with raw.thread_ts th
\* (0: the message has none; an earlier ts: a reply in that thread), a
\* subtype, and image files attached or not.
MaxDecideTs == 4

DecideMessages ==
  { [MessageOf(t) EXCEPT !.thread_ts = th, !.subtype = subtype, !.files = files, !.user = user] :
      t \in 1..MaxDecideTs, th \in 0..MaxDecideTs, subtype \in {"", "file_share", "channel_join"},
      files \in {0, 1}, user \in {"U1", "U2"} }

DecideCall ==
  /\ call_args = NoCall
  /\ \E message \in DecideMessages :
       /\ message.thread_ts <= message.ts
       /\ call_args' = [name |-> "decide_message", message |-> message]
       /\ call_ret' = decision_of(message)
  /\ UNCHANGED <<program_vars, early_vars, context_vars>>

DecideNext == DecideCall

DecideSpec == UnitInit /\ [][DecideNext]_vars

\* C34: every task carries thread_ts, the thread_ts of its message when
\* the message has one and the message's own ts otherwise, and message_ts,
\* always the message's own ts; so what is keyed by task.thread_ts is keyed
\* by the thread root for a reply.
C34_ThreadTsIsThreadRoot ==
  (call_args.name = "decide_message" /\ call_ret.should_run) =>
    LET message == call_args.message
        task == call_ret.task[1]
    IN /\ getattr(task, "message_ts") = <<message.ts>>
       /\ getattr(task, "thread_ts")
            = <<IF message.thread_ts # 0 THEN message.thread_ts ELSE message.ts>>

\* C35: a command message with subtype file_share that carries image files
\* is accepted: the decider returns run, the images are downloaded, the
\* task is enqueued with image_paths listing the files, nothing is reported.
C35_FileShareAccepted ==
  ( /\ call_args.name = "decide_message"
    /\ call_args.message.subtype = "file_share"
    /\ call_args.message.files > 0
    /\ call_args.message.triggered ) =>
      LET message == call_args.message
          out == process_command_message(cfg, StateAfterRestart({}), message, "ok", "ok", TRUE)
      IN /\ call_ret.should_run
         /\ out.ret = 1
         /\ Len(out.queue.items) = 1
         /\ out.queue.items[1].image_paths = message.files
         /\ out.reports[message.ts] = <<>>


\* --------------------------------- _disallowed_shell_commands on its own
\* A shell command is the sequence of its words and operators.
ShellOperators == {"&&", "||", ";", "|"}

ShellTokens == {"FOO=1", "sudo", "/bin/RM", "rm", "ls"} \cup ShellOperators

\* _SHELL_SPLIT_RE.split(command), the empty segments dropped (line 59-60).
RECURSIVE shell_split(_)
shell_split(tokens) ==
  IF tokens = <<>> THEN <<>>
  ELSE LET k == Span(tokens, 1, ShellTokens \ ShellOperators)
           segment == SubSeq(tokens, 1, k - 1)
       IN (IF segment = <<>> THEN <<>> ELSE <<segment>>)
            \o shell_split(SubSeq(tokens, k + 1, Len(tokens)))

MaxTokens == 5

ShellCommands == UNION { [1..n -> ShellTokens] : n \in 1..MaxTokens }

Allowlists == {SHELL_ALLOWLIST, {"rm", "echo"}}

DisallowedCall ==
  /\ call_args = NoCall
  /\ \E command \in ShellCommands : \E allowlist \in Allowlists :
       /\ call_args' = [name |-> "_disallowed_shell_commands", command |-> command,
                        allowlist |-> allowlist]
       /\ call_ret' = disallowed_shell_commands(shell_split(command), allowlist)
  /\ UNCHANGED <<program_vars, early_vars, context_vars>>

DisallowedNext == DisallowedCall

DisallowedSpec == UnitInit /\ [][DisallowedNext]_vars

\* The positions where a segment of the command starts, and where the
\* segment that starts at i ends.
SegmentStarts(command) ==
  { i \in 1..Len(command) :
      command[i] \notin ShellOperators /\ (i = 1 \/ command[i - 1] \in ShellOperators) }

SegmentEnd(command, i) ==
  CHOOSE e \in i..Len(command) :
    /\ \A k \in i..e : command[k] \notin ShellOperators
    /\ e = Len(command) \/ command[e + 1] \in ShellOperators

\* parts without its leading VAR=value assignments.
WithoutAssignments(parts) ==
  LET rest == { k \in 1..Len(parts) : ~IsShellAssignment(parts[k]) } IN
  IF rest = {} THEN <<>>
  ELSE SubSeq(parts, CHOOSE k \in rest : \A other \in rest : k <= other, Len(parts))

\* The effective command name of a segment as the claim states it (0 or 1
\* names); a wrapper that wraps nothing is itself the command.
EffectiveName(parts) ==
  LET words == WithoutAssignments(parts) IN
  IF words = <<>> THEN <<>>
  ELSE IF words[1] \in SHELL_WRAPPER_CMDS /\ Len(words) > 1
    THEN LET wrapped == WithoutAssignments(Tail(words)) IN
         IF wrapped = <<>> THEN <<>> ELSE <<PathNameLower(wrapped[1])>>
    ELSE <<PathNameLower(words[1])>>

NameAt(command, i) == EffectiveName(SubSeq(command, i, SegmentEnd(command, i)))

FirstNamed(command, name) ==
  CHOOSE i \in SegmentStarts(command) :
    /\ NameAt(command, i) = <<name>>
    /\ \A k \in SegmentStarts(command) : NameAt(command, k) = <<name>> => i <= k

\* C36: the disallowed-command check returns, in first-occurrence order and
\* without duplicates, exactly the effective command names that are not in
\* the allowlist, the segments being split on && || ; | and the effective
\* name being the lowercased basename of the first word after the leading
\* assignments and one leading wrapper with its own assignments; the list
\* is empty exactly when every segment's effective name is allowlisted.
C36_DisallowedNames ==
  call_args.name = "_disallowed_shell_commands" =>
    LET command == call_args.command
        allow == call_args.allowlist
        begins == SegmentStarts(command)
    IN
    /\ \A i \in 1..Len(call_ret) : \A j \in 1..Len(call_ret) :
         i < j => /\ call_ret[i] # call_ret[j]
                  /\ FirstNamed(command, call_ret[i]) < FirstNamed(command, call_ret[j])
    /\ SeqRange(call_ret)
         = { name \in { PathNameLower(token) : token \in ShellTokens } :
               name \notin allow /\ \E i \in begins : NameAt(command, i) = <<name>> }
    /\ call_ret = <<>> <=>
         \A i \in begins : NameAt(command, i) # <<>> => NameAt(command, i)[1] \in allow

\* "FOO=1 sudo /bin/RM ; rm" with the default allowlist: rm, once.
C36_Witness ==
  /\ call_args.name = "_disallowed_shell_commands"
  /\ call_args.command = <<"FOO=1", "sudo", "/bin/RM", ";", "rm">>
  /\ call_args.allowlist = SHELL_ALLOWLIST
  /\ call_ret = <<"rm">>


\* -------------------------------------------------------------- config.py
\* An environment gives each variable a value or leaves it unset.
Unset == "<unset>"

\* source.get(key, default)
EnvGet(env, key, default) == IF env[key] = Unset THEN default ELSE env[key]

\* source.get(key) or default: an empty value counts as unset.
EnvGetOr(env, key, default) == IF env[key] \in {Unset, ""} THEN default ELSE env[key]

\* str.strip() on the values used here.
StripBlanks(value) == IF value = " " THEN "" ELSE value

\* str.strip().strip(":") on the values used here.
StripReaction(value) ==
  CASE StripBlanks(value) = ":" -> ""
    [] StripBlanks(value) = ":x:" -> "x"
    [] StripBlanks(value) = ":white_check_mark:" -> "white_check_mark"
    [] OTHER -> StripBlanks(value)

ConfigError(message) == [ok |-> FALSE, error |-> message]

\* _validate_mode
validate_mode(name, value, allowed) ==
  IF StripBlanks(value) = "" THEN ConfigError(name)
  ELSE IF StripBlanks(value) \notin allowed THEN ConfigError(name)
  ELSE [ok |-> TRUE, value |-> StripBlanks(value)]

\* _parse_positive_int on the values used here.
parse_positive_int(name, raw_value, default) ==
  CASE StripBlanks(raw_value) = "" -> [ok |-> TRUE, value |-> default]
    [] StripBlanks(raw_value) = "2" -> [ok |-> TRUE, value |-> 2]
    [] OTHER -> ConfigError(name)

\* Mutation: RUN_MODE=run leaves the approval mode as given.
effective_approval_mode_as_given(run_mode, approval_mode) == approval_mode

\* if run_mode == "run": approval_mode = "none"
effective_approval_mode(run_mode, approval_mode) ==
  IF run_mode = "run" THEN "none" ELSE approval_mode

\* The fields of AppConfig that the checks of load_config relate; the other
\* variables are taken as set and valid.
load_config(env) ==
  LET listener_mode == validate_mode("LISTENER_MODE", EnvGet(env, "LISTENER_MODE", "socket"),
                                     {"poll", "socket"})
      slack_app_token == StripBlanks(EnvGetOr(env, "SLACK_APP_TOKEN", ""))
      worker_processes == parse_positive_int("WORKER_PROCESSES",
                                             EnvGet(env, "WORKER_PROCESSES", ""), 1)
      run_mode == validate_mode("RUN_MODE", EnvGet(env, "RUN_MODE", "approve"),
                                {"approve", "run"})
      given_mode == validate_mode("APPROVAL_MODE", EnvGet(env, "APPROVAL_MODE", "reaction"),
                                  {"none", "reaction"})
      approve_reaction == StripReaction(EnvGetOr(env, "APPROVE_REACTION", "white_check_mark"))
      reject_reaction == StripReaction(EnvGetOr(env, "REJECT_REACTION", "x"))
  IN
  IF ~listener_mode.ok THEN listener_mode
  ELSE IF listener_mode.value = "socket" /\ slack_app_token = ""
    THEN ConfigError("SLACK_APP_TOKEN")
  ELSE IF ~worker_processes.ok THEN worker_processes
  ELSE IF ~run_mode.ok THEN run_mode
  ELSE IF ~given_mode.ok THEN given_mode
  ELSE LET approval_mode == effective_approval_mode(run_mode.value, given_mode.value) IN
  IF approval_mode = "reaction" /\ listener_mode.value # "socket"
    THEN ConfigError("APPROVAL_MODE=reaction requires LISTENER_MODE=socket")
  ELSE IF approve_reaction = "" THEN ConfigError("APPROVE_REACTION cannot be empty")
  ELSE IF reject_reaction = "" THEN ConfigError("REJECT_REACTION cannot be empty")
  ELSE IF approve_reaction = reject_reaction
    THEN ConfigError("APPROVE_REACTION and REJECT_REACTION must be different")
  ELSE [ ok |-> TRUE,
         config |-> [ listener_mode |-> listener_mode.value,
                      slack_app_token |-> slack_app_token,
                      worker_processes |-> worker_processes.value,
                      run_mode |-> run_mode.value,
                      approval_mode |-> approval_mode,
                      approve_reaction |-> approve_reaction,
                      reject_reaction |-> reject_reaction ] ]

Environments ==
  [ LISTENER_MODE : {Unset, "socket", "poll", "bogus"},
    SLACK_APP_TOKEN : {Unset, "xapp-1"},
    WORKER_PROCESSES : {Unset, "2", "0"},
    RUN_MODE : {Unset, "approve", "run"},
    APPROVAL_MODE : {Unset, "none", "reaction", " "},
    APPROVE_REACTION : {Unset, "", ":", ":x:", "white_check_mark"},
    REJECT_REACTION : {Unset, "x", ":white_check_mark:", " "} ]

LoadConfigCall ==
  /\ call_args = NoCall
  /\ \E env \in Environments :
       /\ call_args' = [name |-> "load_config", env |-> env]
       /\ call_ret' = load_config(env)
  /\ UNCHANGED <<program_vars, early_vars, context_vars>>

ConfigNext == LoadConfigCall

ConfigSpec == UnitInit /\ [][ConfigNext]_vars

\* The environment asks for reaction approval without the socket listener
\* (RUN_MODE=run, which turns approval off, aside).
AsksReactionWithoutSocket(env) ==
  /\ EnvGet(env, "APPROVAL_MODE", "reaction") = "reaction"
  /\ EnvGet(env, "LISTENER_MODE", "socket") = "poll"
  /\ EnvGet(env, "RUN_MODE", "approve") = "approve"

\* The reaction names the environment gives (the defaults for an unset or
\* empty variable), blanks and colons stripped, are empty or equal.
BadReactions(env) ==
  LET approve == StripReaction(EnvGetOr(env, "APPROVE_REACTION", "white_check_mark"))
      reject == StripReaction(EnvGetOr(env, "REJECT_REACTION", "x"))
  IN approve = "" \/ reject = "" \/ approve = reject

\* C37: every config load_config returns has approval_mode = reaction only
\* with listener_mode = socket, run_mode = run only with approval_mode =
\* none, and approve_reaction and reject_reaction different and not empty;
\* an environment that violates the first or the third condition is
\* rejected with a configuration error.
C37_ConfigInvariants ==
  call_args.name = "load_config" =>
    /\ call_ret.ok =>
         /\ call_ret.config.approval_mode = "reaction" => call_ret.config.listener_mode = "socket"
         /\ call_ret.config.run_mode = "run" => call_ret.config.approval_mode = "none"
         /\ call_ret.config.approve_reaction # call_ret.config.reject_reaction
         /\ call_ret.config.approve_reaction # ""
         /\ call_ret.config.reject_reaction # ""
    /\ (AsksReactionWithoutSocket(call_args.env) \/ BadReactions(call_args.env)) => ~call_ret.ok

\* RUN_MODE=run with APPROVAL_MODE=reaction in poll mode is accepted with
\* approval turned off, as in test_run_mode_disables_approval.
C37_Witness ==
  /\ call_args.name = "load_config"
  /\ call_args.env.RUN_MODE = "run"
  /\ call_args.env.APPROVAL_MODE = "reaction"
  /\ call_args.env.LISTENER_MODE = "poll"
  /\ call_ret.ok
  /\ call_ret.config.approval_mode = "none"



\* ------------------------------------------ approvals and task statuses
\* The rows of task_approvals against the rows of tasks (state_store.py), as
\* app.py lines 340-350, 245-291 and 376-404 leave them.
StatusOfTask(id) == IF id \in DOMAIN tasks THEN tasks[id].status ELSE "absent"

WaitingWithoutApproval ==
  { id \in DOMAIN tasks :
      /\ tasks[id].status = WAITING_APPROVAL
      /\ ~(id \in DOMAIN approvals /\ approvals[id].status = APPROVAL_PENDING) }

\* C38: in every state between orchestrator steps, crashes and restarts
\* included, an approval row is pending if and only if its task is
\* waiting_approval, an approved row has a task that has left
\* waiting_approval, a rejected row has a canceled task, and every
\* waiting_approval task has a pending approval row.
C38_ApprovalsMatchTasks ==
  /\ \A id \in DOMAIN approvals :
       /\ (approvals[id].status = APPROVAL_PENDING) <=> (StatusOfTask(id) = WAITING_APPROVAL)
       /\ approvals[id].status = APPROVED =>
            StatusOfTask(id) \notin {WAITING_APPROVAL, "absent"}
       /\ approvals[id].status = REJECTED => StatusOfTask(id) = CANCELED
  /\ WaitingWithoutApproval = {}


\* --------------------------------------------- a run that is never cut
\* run() with no death of the process and no exception leaving it: the loop
\* of lines 674-748 goes on, cycle after cycle.  The main thread is one
\* sequential program, so each of its steps is taken once it is enabled
\* (weak fairness of every step of the loop and of the drain); a worker of
\* the pool picks up a submitted item, and an executor invocation returns
\* (weak fairness of WorkerStart and WorkerFinish).
LiveNext ==
  \/ Start
  \/ ListenSocket
  \/ ListenPoll
  \/ ProcessCommandMessage
  \/ ProcessReactionEvent
  \/ BeginDrain
  \/ DrainDequeue
  \/ DrainAcquire
  \/ DrainSubmit
  \/ ExecuteInline
  \/ ExecuteReturn
  \/ FinishTask
  \/ ReleaseLock
  \/ AwaitFuture
  \/ RequeueDeferred
  \/ \E t \in Tasks : WorkerStart(t)
  \/ \E t \in Tasks : WorkerFinish(t)

LiveFairness ==
  /\ WF_vars(Start)
  /\ WF_vars(ListenSocket)
  /\ WF_vars(ListenPoll)
  /\ WF_vars(ProcessCommandMessage)
  /\ WF_vars(ProcessReactionEvent)
  /\ WF_vars(BeginDrain)
  /\ WF_vars(DrainDequeue)
  /\ WF_vars(DrainAcquire)
  /\ WF_vars(DrainSubmit)
  /\ WF_vars(ExecuteInline)
  /\ WF_vars(ExecuteReturn)
  /\ WF_vars(FinishTask)
  /\ WF_vars(ReleaseLock)
  /\ WF_vars(AwaitFuture)
  /\ WF_vars(RequeueDeferred)
  /\ \A t \in Tasks : WF_vars(WorkerStart(t))
  /\ \A t \in Tasks : WF_vars(WorkerFinish(t))

LiveSpec == Init /\ [][LiveNext]_vars /\ LiveFairness

Enqueued(t) == t \in queue.task_ids

Settled(t) == StatusOfTask(t) \in {SUCCEEDED, FAILED}

\* C39: in a run that is never cut and whose executor invocations return,
\* every task that is in the queue is eventually succeeded or failed, a task
\* deferred on a busy lock included, inline and with the pool.
C39_EnqueuedEventuallySettled == \A t \in Tasks : Enqueued(t) ~> Settled(t)

\* A task that was deferred on the lock of a task running in the pool, and
\* has run to a final status since.
C39_Witness ==
  \E t \in Tasks :
    /\ cfg.worker_processes > 1
    /\ deferCount[t] >= 1
    /\ Settled(t)


\* ------------------------------------------------ the poll loop of run()
\* The command channel, the stored checkpoint and the poll branch of the
\* loop of run() (app.py 671-713), with the process dying and starting
\* again.  Slack gives every message a ts greater than the ones before; the
\* messages are written 1, 2, 3, ... in the order they were posted.
MaxChannelTs == 5

MaxBatchSize == 2

MaxLoopStarts == 2

\* SlackChannelListener.__init__: max_pages: int = 3; run() does not pass it.
DEFAULT_MAX_PAGES == 3

Reverse(seq) == [ k \in 1..Len(seq) |-> seq[Len(seq) + 1 - k] ]

\* conversations.history with inclusive=false: the messages newer than
\* oldest (all of them without oldest), newest first, limit of them per
\* page; the cursor is the number of messages the pages before it gave
\* (0 for no cursor).
conversations_history(msgs, oldest, limit, cursor) ==
  LET newer == { m \in msgs : oldest = <<>> \/ m > oldest[1] }
      newest_first == Reverse(SortedSeq(newer))
      upto == IF cursor + limit < Len(newest_first) THEN cursor + limit ELSE Len(newest_first)
  IN [ messages |-> SubSeq(newest_first, cursor + 1, upto),
       has_more |-> upto < Len(newest_first),
       next_cursor |-> IF upto < Len(newest_first) THEN upto ELSE 0 ]

\* The while loop of poll, lines 77-92.
RECURSIVE fetch_pages(_, _, _, _, _, _)
fetch_pages(msgs, oldest, listener, cursor, pages, fetched) ==
  IF pages >= listener.max_pages THEN fetched
  ELSE LET payload == conversations_history(msgs, oldest, listener.batch_size, cursor)
           fetched2 == fetched \o payload.messages
       IN IF ~payload.has_more \/ payload.next_cursor = 0
            THEN fetched2
            ELSE fetch_pages(msgs, oldest, listener, payload.next_cursor, pages + 1, fetched2)

\* poll(last_ts=oldest) against the channel: the fetched messages sorted by
\* ts, and the ts of the last one.
poll_history(msgs, oldest, listener) ==
  LET fetched == fetch_pages(msgs, oldest, listener, 0, 0, <<>>)
      normalized == SortedSeq({ fetched[k] : k \in 1..Len(fetched) })
  IN [ messages |-> normalized,
       newest_ts |-> IF normalized = <<>> THEN <<>> ELSE <<normalized[Len(normalized)]>> ]

\* Somebody posts a message in the command channel.
ChannelPost ==
  /\ Cardinality(channel) < MaxChannelTs
  /\ channel' = channel \cup {Cardinality(channel) + 1}
  /\ UNCHANGED <<program_vars, queue_vars, socket_vars, poll_vars, exec_vars, context_vars,
                 call_vars, checkpoint, loop_last_ts, loop_pc, loop_batch, handed,
                 loop_listener, loop_starts>>

\* run() up to the loop: the listener is built with POLL_BATCH_SIZE and
\* last_ts is read from the store (line 672).
LoopStart ==
  /\ loop_pc = "down"
  /\ loop_starts < MaxLoopStarts
  /\ loop_starts' = loop_starts + 1
  /\ \E batch_size \in 1..MaxBatchSize :
       loop_listener' = [batch_size |-> batch_size, max_pages |-> DEFAULT_MAX_PAGES]
  /\ loop_last_ts' = checkpoint
  /\ loop_pc' = "poll"
  /\ UNCHANGED <<program_vars, queue_vars, socket_vars, poll_vars, exec_vars, context_vars,
                 call_vars, channel, checkpoint, loop_batch, handed>>

\* Lines 684-702: the poll, and the checkpoint written when the result has
\* a newest_ts; a poll that raises is logged and gives no messages.
LoopPoll ==
  /\ loop_pc = "poll"
  /\ \E listen_ok \in BOOLEAN :
       LET polled == poll_history(channel, loop_last_ts, loop_listener) IN
       IF listen_ok
         THEN /\ loop_batch' = polled.messages
              /\ IF polled.newest_ts # <<>>
                   THEN /\ loop_last_ts' = polled.newest_ts
                        /\ checkpoint' = polled.newest_ts
                   ELSE UNCHANGED <<loop_last_ts, checkpoint>>
         ELSE /\ loop_batch' = <<>>
              /\ UNCHANGED <<loop_last_ts, checkpoint>>
  /\ loop_pc' = "intake"
  /\ UNCHANGED <<program_vars, queue_vars, socket_vars, poll_vars, exec_vars, context_vars,
                 call_vars, channel, handed, loop_listener, loop_starts>>

\* Lines 704-712: the next message of the batch goes to
\* _process_command_message.
LoopIntake ==
  /\ loop_pc = "intake"
  /\ loop_batch # <<>>
  /\ handed' = handed \cup {Head(loop_batch)}
  /\ loop_batch' = Tail(loop_batch)
  /\ UNCHANGED <<program_vars, queue_vars, socket_vars, poll_vars, exec_vars, context_vars,
                 call_vars, channel, checkpoint, loop_last_ts, loop_pc, loop_listener,
                 loop_starts>>

\* Lines 714-748: the rest of the cycle (drain, sleep), then the next one.
LoopCycleEnd ==
  /\ loop_pc = "intake"
  /\ loop_batch = <<>>
  /\ loop_pc' = "poll"
  /\ UNCHANGED <<program_vars, queue_vars, socket_vars, poll_vars, exec_vars, context_vars,
                 call_vars, channel, checkpoint, loop_last_ts, loop_batch, handed,
                 loop_listener, loop_starts>>

\* The process dies; the store keeps the checkpoint.
LoopCrash ==
  /\ loop_pc # "down"
  /\ loop_pc' = "down"
  /\ loop_batch' = <<>>
  /\ loop_last_ts' = <<>>
  /\ loop_listener' = NoListener
  /\ UNCHANGED <<program_vars, queue_vars, socket_vars, poll_vars, exec_vars, context_vars,
                 call_vars, channel, checkpoint, handed, loop_starts>>

CheckpointNext ==
  \/ ChannelPost
  \/ LoopStart
  \/ LoopPoll
  \/ LoopIntake
  \/ LoopCycleEnd
  \/ LoopCrash

CheckpointSpec == UnitInit /\ [][CheckpointNext]_vars

CheckpointTs == IF checkpoint = <<>> THEN 0 ELSE checkpoint[1]

InHand == { loop_batch[k] : k \in 1..Len(loop_batch) }

\* The messages at or below the checkpoint that were never handed to
\* intake and are not in the batch being handled.
Skipped == { m \in channel : m <= CheckpointTs /\ m \notin handed \cup InHand }

\* C40: in poll mode the checkpoint never advances past the ts of a channel
\* message that has not been emitted in a poll result and handed to intake
\* (the messages of the batch in hand are on their way to intake), with
\* more new messages than max_pages pages of batch_size and with a crash
\* right after the checkpoint write.
C40_NoMessageSkipped == Skipped = {}

\* The other half of the claim: the stored checkpoint never decreases.
C40_CheckpointNeverDecreases ==
  [][checkpoint # <<>> => (checkpoint' # <<>> /\ checkpoint'[1] >= checkpoint[1])]_vars

\* No message is skipped by a process that has not died, as long as a poll
\* never finds more new messages than its pages hold.
C40_SkipsOnlyByOverflowOrCrash ==
  (loop_starts <= 1 /\ loop_pc # "down"
     /\ Cardinality(channel) <= DEFAULT_MAX_PAGES * loop_listener.batch_size)
    => Skipped = {}

====
